---- MODULE Spec2Model ----
(***************************************************************************)
(* Claims-Description-Normalizer: the response parser, the recommendation  *)
(* rule engine (src/utils.py), the request cycle of the Streamlit page    *)
(* (src/app.py) and the history store (src/database.py).                   *)
(*                                                                         *)
(* Text is a sequence of chunks.  Text that the code inspects character by *)
(* character (lower(), replace(), strip(), regular expressions, JSON      *)
(* decoding) is a sequence of one-character chunks; the non-ASCII          *)
(* characters of the source are written "<U+xxxx>".  Literal text that the *)
(* code only copies (action names, priorities, categories, the static     *)
(* parts of a reasoning) is a single chunk.  The icon of a recommendation  *)
(* is a display glyph no code branches on and is left out.                 *)
(***************************************************************************)
EXTENDS Integers, Sequences, FiniteSets, TLC

VARIABLES
    rec_pc,            \* generate_recommendations: "idle", "call" before, "returned" after
    extracted_data,    \* generate_recommendations: the argument mapping
    recommendations,   \* generate_recommendations: the returned list
    parse_pc,          \* parse_gemini_response: "idle", "call" before, "returned" after
    reply_parts,       \* how the reply text is put together
    response_text,     \* parse_gemini_response: the argument
    parse_result,      \* parse_gemini_response: the returned value
    DATABASE_TYPE,     \* database.py: the backend read when the module is imported
    environ,           \* os.environ, after load_dotenv: the variables that are set
    secrets,           \* st.secrets: the keys that are set
    config_cache,      \* database.py: _config_cache
    config_call,       \* the last function that asked for the configuration
    now,               \* the store's CURRENT_TIMESTAMP, in ticks
    claim_history,     \* the rows of the table claim_history
    claim_recommendations, \* the rows of the table claim_recommendations
    claim_seq,         \* the last id AUTOINCREMENT / SERIAL gave to a claim row
    rec_seq,           \* the last id AUTOINCREMENT / SERIAL gave to a recommendation row
    run_count,         \* how many times the Normalize Claim branch of main ran
    last_run,          \* what the last such run did
    util_pc,           \* a helper of utils.py: "idle", "call" before, "returned" after
    util_fn,           \* the helper that is called
    util_args,         \* its arguments, by parameter name
    util_result        \* the value it returned

recVars == <<rec_pc, extracted_data, recommendations>>

parseVars == <<parse_pc, reply_parts, response_text, parse_result>>

storeVars == <<DATABASE_TYPE, now, claim_history, claim_recommendations,
               claim_seq, rec_seq>>

appVars == <<run_count, last_run>>

utilVars == <<util_pc, util_fn, util_args, util_result>>

configVars == <<environ, secrets, config_cache, config_call>>

vars == <<rec_pc, extracted_data, recommendations,
          parse_pc, reply_parts, response_text, parse_result,
          DATABASE_TYPE, now, claim_history, claim_recommendations,
          claim_seq, rec_seq, run_count, last_run,
          util_pc, util_fn, util_args, util_result,
          environ, secrets, config_cache, config_call>>

-----------------------------------------------------------------------------
(* Python str operations, computed character by character.                 *)

\* the element of a one-element set.  The({body : x \in {e}}) is body with
\* the local variable x assigned the value of e, computed once
The(S) == CHOOSE out \in S : TRUE

UpperCaseLetters == <<"A","B","C","D","E","F","G","H","I","J","K","L","M","N","O","P","Q","R","S","T","U","V","W","X","Y","Z">>

LowerCaseLetters == <<"a","b","c","d","e","f","g","h","i","j","k","l","m","n","o","p","q","r","s","t","u","v","w","x","y","z">>

DigitChars == <<"0","1","2","3","4","5","6","7","8","9">>

\* str.strip() and the regular-expression class \s
WhitespaceChars == {" ", "\n", "\t", "\r"}

char_lower(c) ==
    IF \E i \in 1..26 : UpperCaseLetters[i] = c
    THEN LowerCaseLetters[CHOOSE i \in 1..26 : UpperCaseLetters[i] = c]
    ELSE IF c = "<U+00C7>" THEN "<U+00E7>" ELSE c

str_lower(s) == [i \in 1..Len(s) |-> char_lower(s[i])]

\* sub in s
str_contains(s, sub) ==
    \E i \in 1..(Len(s) - Len(sub) + 1) : SubSeq(s, i, i + Len(sub) - 1) = sub

str_startswith(s, prefix) ==
    Len(s) >= Len(prefix) /\ SubSeq(s, 1, Len(prefix)) = prefix

RECURSIVE str_replace_empty(_, _)
\* s.replace(old, ''): the non-overlapping occurrences of old, left to right
str_replace_empty(s, old) ==
    IF Len(s) < Len(old) THEN s
    ELSE IF SubSeq(s, 1, Len(old)) = old
         THEN str_replace_empty(SubSeq(s, Len(old) + 1, Len(s)), old)
         ELSE <<s[1]>> \o str_replace_empty(Tail(s), old)

\* s.lstrip()
str_lstrip(s) ==
    IF \A k \in 1..Len(s) : s[k] \in WhitespaceChars THEN << >>
    ELSE SubSeq(s, CHOOSE k \in 1..Len(s) :
                       /\ s[k] \notin WhitespaceChars
                       /\ \A j \in 1..(k - 1) : s[j] \in WhitespaceChars,
                Len(s))

\* s.rstrip()
str_rstrip(s) ==
    IF \A k \in 1..Len(s) : s[k] \in WhitespaceChars THEN << >>
    ELSE SubSeq(s, 1, CHOOSE k \in 1..Len(s) :
                          /\ s[k] \notin WhitespaceChars
                          /\ \A j \in (k + 1)..Len(s) : s[j] \in WhitespaceChars)

\* s.strip()
str_strip(s) == The({str_rstrip(l) : l \in {str_lstrip(s)}})

\* dict.get(key, default)
dict_get(d, key, default) == IF key \in DOMAIN d THEN d[key] ELSE default

-----------------------------------------------------------------------------
(* parse_estimated_loss: a float is the exact decimal num / den.           *)

IsDigit(c) == \E i \in 1..10 : DigitChars[i] = c

DigitValue(c) == (CHOOSE i \in 1..10 : DigitChars[i] = c) - 1

RECURSIVE DigitsToNat(_)
DigitsToNat(ds) ==
    IF ds = << >> THEN 0
    ELSE 10 * DigitsToNat(SubSeq(ds, 1, Len(ds) - 1)) + DigitValue(ds[Len(ds)])

RECURSIVE PowerOfTen(_)
PowerOfTen(k) == IF k = 0 THEN 1 ELSE 10 * PowerOfTen(k - 1)

RECURSIVE DigitRun(_, _)
\* the number of consecutive digits of s from position i on
DigitRun(s, i) ==
    IF i <= Len(s) /\ IsDigit(s[i]) THEN 1 + DigitRun(s, i + 1) ELSE 0

HasDigit(s) == \E i \in 1..Len(s) : IsDigit(s[i])

\* re.findall(r'\d+\.?\d*', s)[0], as its integer digits and fraction digits
first_number(s) ==
    LET i == CHOOSE p \in 1..Len(s) :
                 IsDigit(s[p]) /\ \A q \in 1..(p - 1) : ~IsDigit(s[q])
        n == DigitRun(s, i)
        j == i + n
        hasDot == j <= Len(s) /\ s[j] = "."
        m == IF hasDot THEN DigitRun(s, j + 1) ELSE 0
    IN  [int |-> SubSeq(s, i, j - 1),
         frac |-> IF hasDot THEN SubSeq(s, j + 1, j + m) ELSE << >>]

\* float(token)
to_float(tok) ==
    [num |-> DigitsToNat(tok.int \o tok.frac), den |-> PowerOfTen(Len(tok.frac))]

Zero == [num |-> 0, den |-> 1]

FloatLess(v, n) == v.num < n * v.den

FloatGreater(v, n) == v.num > n * v.den

FloatIsZero(v) == v.num = 0

LossSentinels == {<<"n","o","t"," ","s","p","e","c","i","f","i","e","d">>, <<"u","n","k","n","o","w","n">>, <<"n","/","a">>}

parse_estimated_loss(loss_str) ==
    IF loss_str = << >> \/ str_lower(loss_str) \in LossSentinels THEN Zero
    ELSE LET c1 == str_replace_empty(
                     str_replace_empty(
                       str_replace_empty(str_lower(loss_str), <<"<U+201A>","<U+00C7>","<U+03C0>">>),
                       <<"$">>),
                     <<"<U+201A>","<U+00C7>","<U+00A8>">>)
             c2 == str_replace_empty(
                     str_replace_empty(
                       str_replace_empty(c1, <<"o","v","e","r">>),
                       <<"a","r","o","u","n","d">>),
                     <<"a","p","p","r","o","x","i","m","a","t","e","l","y">>)
             cleaned == str_strip(str_replace_empty(c2, <<",">>))
         IN  IF HasDigit(cleaned) THEN to_float(first_number(cleaned)) ELSE Zero

\* round(v) to an integer, ties to even, as the format spec .0f rounds
round_half_even(v) ==
    LET q == v.num \div v.den
        r == v.num % v.den
    IN  IF 2 * r > v.den THEN q + 1
        ELSE IF 2 * r = v.den THEN q + (q % 2)
        ELSE q

RECURSIVE NatToDigits(_)
NatToDigits(n) ==
    IF n < 10 THEN <<DigitChars[n + 1]>>
    ELSE NatToDigits(n \div 10) \o <<DigitChars[(n % 10) + 1]>>

RECURSIVE group_thousands(_)
group_thousands(ds) ==
    IF Len(ds) <= 3 THEN ds
    ELSE group_thousands(SubSeq(ds, 1, Len(ds) - 3)) \o <<",">>
             \o SubSeq(ds, Len(ds) - 2, Len(ds))

\* f"{v:,.0f}"
format_comma_0f(v) == group_thousands(NatToDigits(round_half_even(v)))

RECURSIVE str_join(_, _)
\* sep.join(items)
str_join(sep, items) ==
    IF items = << >> THEN << >>
    ELSE IF Len(items) = 1 THEN items[1]
    ELSE items[1] \o sep \o str_join(sep, Tail(items))

-----------------------------------------------------------------------------
(* generate_recommendations                                                *)

Recommendation(a, p, c, r) ==
    [action |-> a, priority |-> p, category |-> c, reasoning |-> r]

DateLocationSentinels == {<<"n","o","t"," ","s","p","e","c","i","f","i","e","d">>, <<"u","n","k","n","o","w","n">>}

\* missing_info with the cost estimate appended first
missing_info_CostFirst(incident_date, location, estimated_loss) ==
    (IF FloatIsZero(estimated_loss)
     THEN << <<"cost estimate">> >> ELSE << >>)
    \o (IF str_lower(incident_date) \in DateLocationSentinels
        THEN << <<"incident date">> >> ELSE << >>)
    \o (IF str_lower(location) \in DateLocationSentinels
        THEN << <<"location">> >> ELSE << >>)

\* the list missing_info, built before the rules run
missing_info(incident_date, location, estimated_loss) ==
    (IF str_lower(incident_date) \in DateLocationSentinels
     THEN << <<"incident date">> >> ELSE << >>)
    \o (IF str_lower(location) \in DateLocationSentinels
        THEN << <<"location">> >> ELSE << >>)
    \o (IF FloatIsZero(estimated_loss)
        THEN << <<"cost estimate">> >> ELSE << >>)

\* rule 1 firing on every confidence but high
Rule1_LowConfidence_NotHigh(confidence) ==
    IF confidence # <<"h","i","g","h">>
    THEN << Recommendation("Request Additional Documentation", "High", "Verification",
              <<"Low confidence in data extraction. Need customer clarification to ensure accuracy.">>),
            Recommendation("Contact Customer for Details", "High", "Communication",
              <<"Missing or unclear information requires direct customer contact.">>) >>
    ELSE << >>

\* Rule 1: Low Confidence
Rule1_LowConfidence(confidence) ==
    IF confidence = <<"l","o","w">>
    THEN << Recommendation("Request Additional Documentation", "High", "Verification",
              <<"Low confidence in data extraction. Need customer clarification to ensure accuracy.">>),
            Recommendation("Contact Customer for Details", "High", "Communication",
              <<"Missing or unclear information requires direct customer contact.">>) >>
    ELSE << >>

\* the chain with rule 2 not testing the confidence
SeverityBranch_IgnoringConfidence(severity, confidence, estimated_loss) ==
    IF severity = <<"l","o","w">> /\ FloatLess(estimated_loss, 10000)
    THEN << Recommendation("Fast-track Approval", "High", "Processing",
              <<"Low severity with high confidence and minimal cost. Safe for quick approval.">>),
            Recommendation("Simple Phone Verification", "Medium", "Verification",
              <<"Quick call to confirm details before approval.">>) >>
    ELSE IF severity = <<"m","e","d","i","u","m">>
    THEN << Recommendation("Standard Review Process", "Medium", "Processing",
              <<"Medium severity requires standard assessment procedures.">>),
            Recommendation("Request Photos/Documentation", "Medium", "Documentation",
              <<"Visual evidence needed to validate damage extent.">>),
            Recommendation("Schedule Assessment Within 5 Days", "Medium", "Administrative",
              <<"Timely assessment ensures accurate damage evaluation.">>) >>
    ELSE IF severity \in {<<"h","i","g","h">>, <<"c","r","i","t","i","c","a","l">>}
    THEN << Recommendation("Detailed Investigation Required", "Critical", "Processing",
              <<"High severity claim requires thorough investigation and documentation.">>),
            Recommendation("Assign Senior Adjuster", "High", "Administrative",
              <<"Complex case requiring experienced adjuster expertise.">>),
            Recommendation("Schedule On-site Inspection", "Critical", "Verification",
              <<"Physical inspection mandatory for high-value claims.">>) >>
    ELSE << >>

\* Rules 2, 3 and 4: the if / elif / elif chain over severity
SeverityBranch(severity, confidence, estimated_loss) ==
    IF severity = <<"l","o","w">> /\ confidence = <<"h","i","g","h">>
           /\ FloatLess(estimated_loss, 10000)
    THEN << Recommendation("Fast-track Approval", "High", "Processing",
              <<"Low severity with high confidence and minimal cost. Safe for quick approval.">>),
            Recommendation("Simple Phone Verification", "Medium", "Verification",
              <<"Quick call to confirm details before approval.">>) >>
    ELSE IF severity = <<"m","e","d","i","u","m">>
    THEN << Recommendation("Standard Review Process", "Medium", "Processing",
              <<"Medium severity requires standard assessment procedures.">>),
            Recommendation("Request Photos/Documentation", "Medium", "Documentation",
              <<"Visual evidence needed to validate damage extent.">>),
            Recommendation("Schedule Assessment Within 5 Days", "Medium", "Administrative",
              <<"Timely assessment ensures accurate damage evaluation.">>) >>
    ELSE IF severity \in {<<"h","i","g","h">>, <<"c","r","i","t","i","c","a","l">>}
    THEN << Recommendation("Detailed Investigation Required", "Critical", "Processing",
              <<"High severity claim requires thorough investigation and documentation.">>),
            Recommendation("Assign Senior Adjuster", "High", "Administrative",
              <<"Complex case requiring experienced adjuster expertise.">>),
            Recommendation("Schedule On-site Inspection", "Critical", "Verification",
              <<"Physical inspection mandatory for high-value claims.">>) >>
    ELSE << >>

\* rule 5 firing from 50000 on instead of above 50000
Rule5_HighValue_FromThreshold(estimated_loss) ==
    IF ~FloatLess(estimated_loss, 50000)
    THEN << Recommendation("Supervisor Approval Required", "Critical", "Administrative",
              <<"Claim value ($">> \o format_comma_0f(estimated_loss)
                  \o <<") exceeds standard approval threshold.">>),
            Recommendation("Request Independent Assessment", "High", "Verification",
              <<"High-value claim requires third-party validation.">>) >>
    ELSE << >>

\* Rule 5: High Value Claims
Rule5_HighValue(estimated_loss) ==
    IF FloatGreater(estimated_loss, 50000)
    THEN << Recommendation("Supervisor Approval Required", "Critical", "Administrative",
              <<"Claim value ($">> \o format_comma_0f(estimated_loss)
                  \o <<") exceeds standard approval threshold.">>),
            Recommendation("Request Independent Assessment", "High", "Verification",
              <<"High-value claim requires third-party validation.">>) >>
    ELSE << >>

\* rule 6 as an if/elif chain: only the first keyword that is found counts
Rule6_LossType_FirstOnly(loss_type) ==
    IF str_contains(loss_type, <<"t","h","e","f","t">>)
    THEN << Recommendation("Verify Police Report", "Critical", "Verification",
              <<"Theft claims require official police documentation.">>) >>
    ELSE IF str_contains(loss_type, <<"f","i","r","e">>)
    THEN << Recommendation("Request Fire Department Report", "High", "Documentation",
              <<"Fire incident requires official fire department documentation.">>) >>
    ELSE IF str_contains(loss_type, <<"f","l","o","o","d">>) \/ str_contains(loss_type, <<"w","a","t","e","r">>)
    THEN << Recommendation("Verify Weather Records", "Medium", "Verification",
              <<"Cross-reference with official weather data for validation.">>) >>
    ELSE IF str_contains(loss_type, <<"a","c","c","i","d","e","n","t">>) \/ str_contains(loss_type, <<"c","o","l","l","i","s","i","o","n">>)
    THEN << Recommendation("Request Accident Report", "High", "Documentation",
              <<"Vehicle accidents require official accident documentation.">>) >>
    ELSE << >>

\* Rule 6: Loss Type Specific Recommendations
Rule6_LossType(loss_type) ==
    (IF str_contains(loss_type, <<"t","h","e","f","t">>)
     THEN << Recommendation("Verify Police Report", "Critical", "Verification",
               <<"Theft claims require official police documentation.">>) >>
     ELSE << >>)
    \o (IF str_contains(loss_type, <<"f","i","r","e">>)
        THEN << Recommendation("Request Fire Department Report", "High", "Documentation",
                  <<"Fire incident requires official fire department documentation.">>) >>
        ELSE << >>)
    \o (IF str_contains(loss_type, <<"f","l","o","o","d">>) \/ str_contains(loss_type, <<"w","a","t","e","r">>)
        THEN << Recommendation("Verify Weather Records", "Medium", "Verification",
                  <<"Cross-reference with official weather data for validation.">>) >>
        ELSE << >>)
    \o (IF str_contains(loss_type, <<"a","c","c","i","d","e","n","t">>) \/ str_contains(loss_type, <<"c","o","l","l","i","s","i","o","n">>)
        THEN << Recommendation("Request Accident Report", "High", "Documentation",
                  <<"Vehicle accidents require official accident documentation.">>) >>
        ELSE << >>)

\* Rule 7: Missing Information
Rule7_MissingInformation(missing) ==
    IF missing # << >>
    THEN << Recommendation("Collect Missing Information", "High", "Documentation",
              <<"Critical fields missing: ">> \o str_join(<<", ">>, missing)
                  \o <<". Required for processing.">>) >>
    ELSE << >>

\* Rule 8: Urgent Cases
Rule8_Urgent(incident_date) ==
    IF str_contains(str_lower(incident_date), <<"t","o","d","a","y">>)
           \/ str_contains(str_lower(incident_date), <<"y","e","s","t","e","r","d","a","y">>)
    THEN << Recommendation("Priority Processing", "High", "Processing",
              <<"Recent incident requires prompt attention and quick response.">>) >>
    ELSE << >>

DefaultRecommendation ==
    Recommendation("Standard Claim Processing", "Medium", "Processing",
        <<"Process through standard workflow with routine verification.">>)

\* the rules with the critical-priority ones moved to the front
rule_recommendations_ByPriority(data) ==
    LET severity == str_lower(dict_get(data, "severity", <<"U","n","k","n","o","w","n">>))
        confidence == str_lower(dict_get(data, "confidence", <<"U","n","k","n","o","w","n">>))
        loss_type == str_lower(dict_get(data, "loss_type", <<"U","n","k","n","o","w","n">>))
        estimated_loss == parse_estimated_loss(dict_get(data, "estimated_loss", <<"0">>))
        incident_date == dict_get(data, "incident_date", <<"N","o","t"," ","s","p","e","c","i","f","i","e","d">>)
        location == dict_get(data, "location", <<"N","o","t"," ","s","p","e","c","i","f","i","e","d">>)
    IN  Rule5_HighValue(estimated_loss)
        \o Rule6_LossType(loss_type)
        \o Rule1_LowConfidence(confidence)
        \o SeverityBranch(severity, confidence, estimated_loss)
        \o Rule7_MissingInformation(missing_info(incident_date, location, estimated_loss))
        \o Rule8_Urgent(incident_date)

\* the list before the final default is considered
rule_recommendations(data) ==
    LET severity == str_lower(dict_get(data, "severity", <<"U","n","k","n","o","w","n">>))
        confidence == str_lower(dict_get(data, "confidence", <<"U","n","k","n","o","w","n">>))
        loss_type == str_lower(dict_get(data, "loss_type", <<"U","n","k","n","o","w","n">>))
        estimated_loss == parse_estimated_loss(dict_get(data, "estimated_loss", <<"0">>))
        incident_date == dict_get(data, "incident_date", <<"N","o","t"," ","s","p","e","c","i","f","i","e","d">>)
        location == dict_get(data, "location", <<"N","o","t"," ","s","p","e","c","i","f","i","e","d">>)
    IN  Rule1_LowConfidence(confidence)
        \o SeverityBranch(severity, confidence, estimated_loss)
        \o Rule5_HighValue(estimated_loss)
        \o Rule6_LossType(loss_type)
        \o Rule7_MissingInformation(missing_info(incident_date, location, estimated_loss))
        \o Rule8_Urgent(incident_date)

\* the default appended whatever the rules produced
generate_recommendations_AlwaysDefault(data) ==
    rule_recommendations(data) \o <<DefaultRecommendation>>

generate_recommendations(data) ==
    LET recs == rule_recommendations(data)
    IN  IF recs = << >> THEN <<DefaultRecommendation>> ELSE recs

-----------------------------------------------------------------------------
(* json.loads, as the decoder of the standard library scans a text.  A     *)
(* decoded value is [t, v]: t is "obj", "arr", "str", "num", "bool" or     *)
(* "null"; v is the mapping from keys to values of an object (a repeated   *)
(* key keeps its last value), the sequence of items of an array, the       *)
(* characters of a string, the lexeme of a number or literal.  Positions   *)
(* are 1-based here and reported 0-based, as the decoder reports them.  No *)
(* text explored holds a backslash, so string escapes do not arise.        *)

JStr(chars) == [t |-> "str", v |-> chars]

JNum(lexeme) == [t |-> "num", v |-> lexeme]

JArr(items) == [t |-> "arr", v |-> items]

JObj(members) == [t |-> "obj", v |-> members]

JBool(lexeme) == [t |-> "bool", v |-> lexeme]

JNull == [t |-> "null", v |-> << >>]

\* no value yet
NoResult == [t |-> "none", v |-> << >>]

EmptyDict == [k \in {} |-> JNull]

\* a decoding step that succeeded with value v and stopped before position e
Decoded(v, e) == [ok |-> TRUE, value |-> v, end |-> e, msg |-> "", pos |-> 0]

\* JSONDecodeError(msg, s, pos), pos being 0-based
DecodeError(m, p) == [ok |-> FALSE, value |-> JNull, end |-> 0, msg |-> m, pos |-> p]

ControlChars == {"\n", "\t", "\r"}

HasAt(s, i, word) ==
    i + Len(word) - 1 <= Len(s) /\ SubSeq(s, i, i + Len(word) - 1) = word

RECURSIVE skip_ws(_, _)
\* WHITESPACE.match(s, i).end()
skip_ws(s, i) ==
    IF i <= Len(s) /\ s[i] \in WhitespaceChars THEN skip_ws(s, i + 1) ELSE i

RECURSIVE string_terminator(_, _)
\* the first position from i on that holds a quote or a control character,
\* Len(s) + 1 if there is none
string_terminator(s, i) ==
    IF i > Len(s) THEN i
    ELSE IF s[i] = "\"" \/ s[i] \in ControlChars THEN i
    ELSE string_terminator(s, i + 1)

\* scanstring(s, i): i is the position after the opening quote
scanstring(s, i) ==
    LET p == string_terminator(s, i)
    IN  IF p > Len(s) THEN DecodeError("Unterminated string starting at", i - 2)
        ELSE IF s[p] # "\"" THEN DecodeError("Invalid control character at", p - 1)
        ELSE Decoded(SubSeq(s, i, p - 1), p + 1)

\* NUMBER_RE.match(s, i): the end of (-?(?:0|[1-9]\d*))(\.\d+)?([eE][-+]?\d+)?,
\* 0 if it does not match at i
number_end(s, i) ==
    LET a == IF i <= Len(s) /\ s[i] = "-" THEN i + 1 ELSE i
        intEnd == IF a <= Len(s) /\ s[a] = "0" THEN a + 1
                  ELSE IF a <= Len(s) /\ IsDigit(s[a]) THEN a + DigitRun(s, a)
                  ELSE 0
        fracDigits == IF intEnd # 0 /\ intEnd <= Len(s) /\ s[intEnd] = "."
                      THEN DigitRun(s, intEnd + 1) ELSE 0
        fracEnd == IF fracDigits > 0 THEN intEnd + 1 + fracDigits ELSE intEnd
        hasE == fracEnd # 0 /\ fracEnd <= Len(s) /\ s[fracEnd] \in {"e", "E"}
        signEnd == IF hasE /\ fracEnd + 1 <= Len(s) /\ s[fracEnd + 1] \in {"-", "+"}
                   THEN fracEnd + 2 ELSE fracEnd + 1
        expDigits == IF hasE THEN DigitRun(s, signEnd) ELSE 0
    IN  IF intEnd = 0 THEN 0
        ELSE IF expDigits > 0 THEN signEnd + expDigits
        ELSE fracEnd

RECURSIVE scan_once(_, _)
RECURSIVE JSONObjectMembers(_, _, _)
RECURSIVE JSONArrayItems(_, _, _)

\* JSONObject: i is the position after "{"
JSONObject(s, i) ==
    The({ IF e <= Len(s) /\ s[e] = "\"" THEN JSONObjectMembers(s, e + 1, EmptyDict)
          ELSE IF e <= Len(s) /\ s[e] = "}" THEN Decoded(JObj(EmptyDict), e + 1)
          ELSE DecodeError("Expecting property name enclosed in double quotes", e - 1)
          : e \in {skip_ws(s, i)} })

\* the rest of the loop of JSONObject once a member is decoded: d is the
\* position of the first character after the member's value and whitespace
JSONObjectNext(s, d, added) ==
    IF d <= Len(s) /\ s[d] = "}" THEN Decoded(JObj(added), d + 1)
    ELSE IF ~(d <= Len(s) /\ s[d] = ",")
    THEN DecodeError("Expecting ',' delimiter", d - 1)
    ELSE The({ IF q <= Len(s) /\ s[q] = "\""
               THEN JSONObjectMembers(s, q + 1, added)
               ELSE DecodeError("Expecting property name enclosed in double quotes",
                                q - 1)
               : q \in {skip_ws(s, d + 1)} })

\* the loop of JSONObject once a key is scanned: c is the position of the
\* first character after the key and whitespace
JSONObjectValue(s, key, c, members) ==
    IF ~(c <= Len(s) /\ s[c] = ":")
    THEN DecodeError("Expecting ':' delimiter", c - 1)
    ELSE The({ IF ~val.ok THEN val
               ELSE The({ JSONObjectNext(s, d, added)
                          : d \in {skip_ws(s, val.end)},
                            added \in {[k \in DOMAIN members \cup {key.value} |->
                                          IF k = key.value THEN val.value
                                          ELSE members[k]]} })
               : val \in {scan_once(s, skip_ws(s, c + 1))} })

\* the loop of JSONObject: i is the position after the opening quote of a key
JSONObjectMembers(s, i, members) ==
    The({ IF ~key.ok THEN key
          ELSE The({ JSONObjectValue(s, key, c, members)
                     : c \in {skip_ws(s, key.end)} })
          : key \in {scanstring(s, i)} })

\* JSONArray: i is the position after "["
JSONArray(s, i) ==
    The({ IF e <= Len(s) /\ s[e] = "]" THEN Decoded(JArr(<< >>), e + 1)
          ELSE JSONArrayItems(s, e, << >>)
          : e \in {skip_ws(s, i)} })

\* the loop of JSONArray once an item is decoded: d is the position of the
\* first character after the item and whitespace
JSONArrayNext(s, d, items) ==
    IF d <= Len(s) /\ s[d] = "]" THEN Decoded(JArr(items), d + 1)
    ELSE IF ~(d <= Len(s) /\ s[d] = ",")
    THEN DecodeError("Expecting ',' delimiter", d - 1)
    ELSE The({ JSONArrayItems(s, nxt, items) : nxt \in {skip_ws(s, d + 1)} })

\* the loop of JSONArray: i is the position of the next item
JSONArrayItems(s, i, items) ==
    The({ IF ~val.ok THEN val
          ELSE The({ JSONArrayNext(s, d, more)
                     : d \in {skip_ws(s, val.end)},
                       more \in {Append(items, val.value)} })
          : val \in {scan_once(s, i)} })

\* the number and constant branches of scan_once: e is where NUMBER_RE ends
scan_number(s, i, e) ==
    IF e # 0 THEN Decoded(JNum(SubSeq(s, i, e - 1)), e)
    ELSE IF HasAt(s, i, <<"N","a","N">>) THEN Decoded(JNum(<<"N","a","N">>), i + 3)
    ELSE IF HasAt(s, i, <<"I","n","f","i","n","i","t","y">>) THEN Decoded(JNum(<<"I","n","f","i","n","i","t","y">>), i + 8)
    ELSE IF HasAt(s, i, <<"-","I","n","f","i","n","i","t","y">>) THEN Decoded(JNum(<<"-","I","n","f","i","n","i","t","y">>), i + 9)
    ELSE DecodeError("Expecting value", i - 1)

\* scan_once(s, i); StopIteration(i) is the error "Expecting value" at i
scan_once(s, i) ==
    IF i > Len(s) THEN DecodeError("Expecting value", i - 1)
    ELSE IF s[i] = "\"" THEN
        The({ IF str.ok THEN Decoded(JStr(str.value), str.end) ELSE str
              : str \in {scanstring(s, i + 1)} })
    ELSE IF s[i] = "{" THEN JSONObject(s, i + 1)
    ELSE IF s[i] = "[" THEN JSONArray(s, i + 1)
    ELSE IF HasAt(s, i, <<"n","u","l","l">>) THEN Decoded(JNull, i + 4)
    ELSE IF HasAt(s, i, <<"t","r","u","e">>) THEN Decoded(JBool(<<"t","r","u","e">>), i + 4)
    ELSE IF HasAt(s, i, <<"f","a","l","s","e">>) THEN Decoded(JBool(<<"f","a","l","s","e">>), i + 5)
    ELSE The({ scan_number(s, i, e) : e \in {number_end(s, i)} })

\* JSONDecoder.decode on a text whose value is known
json_decode(s) ==
    The({ IF ~r.ok THEN r
          ELSE The({ IF e # Len(s) + 1 THEN DecodeError("Extra data", e - 1) ELSE r
                     : e \in {skip_ws(s, r.end)} })
          : r \in {scan_once(s, skip_ws(s, 1))} })

\* json.loads(s)
json_loads(s) == The({ json_decode(text) : text \in {s} })

\* the line and column of a JSONDecodeError, given the positions of the
\* newlines before pos
decode_error_at(err, before) ==
    <<err.msg, ": line ">> \o NatToDigits(Cardinality(before) + 1)
        \o <<" column ">>
        \o NatToDigits(err.pos + 1
                         - (IF before = {} THEN 0
                            ELSE CHOOSE k \in before : \A j \in before : j <= k))
        \o <<" (char ">> \o NatToDigits(err.pos) \o <<")">>

\* str(e) of a JSONDecodeError: "msg: line L column C (char pos)"
decode_error_str(s, err) ==
    The({ decode_error_at(err, before)
          : before \in {{k \in 1..err.pos : s[k] = "\n"}} })

-----------------------------------------------------------------------------
(* parse_gemini_response                                                   *)

Fence == <<"<U+0060>","<U+0060>","<U+0060>">>

\* ^ under re.MULTILINE
AtLineStart(s, i) == i = 1 \/ s[i - 1] = "\n"

\* $ under re.MULTILINE
AtLineEnd(s, i) == i > Len(s) \/ s[i] = "\n"

RECURSIVE fence_sub(_, _)
\* re.sub of the fence pattern (an opening fence at a line start with an
\* optional json tag and the whitespace after it, or whitespace and a fence
\* at a line end) by the empty string under re.MULTILINE, from position i on
fence_sub(s, i) ==
    IF i > Len(s) THEN << >>
    ELSE IF AtLineStart(s, i) /\ HasAt(s, i, Fence)
    THEN The({ fence_sub(s, nxt)
               : nxt \in {skip_ws(s, IF HasAt(s, i + 3, <<"j","s","o","n">>)
                                     THEN i + 7 ELSE i + 3)} })
    ELSE The({ IF HasAt(s, w, Fence) /\ AtLineEnd(s, w + 3)
               THEN The({ fence_sub(s, nxt) : nxt \in {w + 3} })
               ELSE The({ <<s[i]>> \o fence_sub(s, nxt) : nxt \in {i + 1} })
               : w \in {skip_ws(s, i)} })

\* cleaned_text without the strip() of the whole text
cleaned_text_NoStrip(text) ==
    The({ IF str_startswith(stripped, Fence) THEN fence_sub(stripped, 1) ELSE stripped
          : stripped \in {text} })

\* cleaned_text, as handed to json.loads
cleaned_text(text) ==
    The({ IF str_startswith(stripped, Fence) THEN fence_sub(stripped, 1) ELSE stripped
          : stripped \in {str_strip(text)} })

\* the error structure of the except branch
parse_failure(text, err) ==
    JObj([k \in {<<"e","r","r","o","r">>, <<"r","a","w","_","r","e","s","p","o","n","s","e">>, <<"d","e","t","a","i","l","s">>} |->
            IF k = <<"e","r","r","o","r">> THEN JStr(<<"Failed to parse response">>)
            ELSE IF k = <<"r","a","w","_","r","e","s","p","o","n","s","e">> THEN JStr(text)
            ELSE JStr(err)])

\* the return and the except branch, given the text handed to json.loads
parse_cleaned(text, cleaned) ==
    The({ IF r.ok THEN r.value ELSE parse_failure(text, decode_error_str(cleaned, r))
          : r \in {json_decode(cleaned)} })

parse_gemini_response(text) ==
    The({ parse_cleaned(response, cleaned)
          : response \in {text}, cleaned \in {cleaned_text(text)} })

\* the error structure parse_gemini_response returns from its except branch
IsFailure(r) ==
    /\ r.t = "obj"
    /\ DOMAIN r.v = {<<"e","r","r","o","r">>, <<"r","a","w","_","r","e","s","p","o","n","s","e">>, <<"d","e","t","a","i","l","s">>}
    /\ r.v[<<"e","r","r","o","r">>] = JStr(<<"Failed to parse response">>)

-----------------------------------------------------------------------------
(* The history store of database.py.  A row of claim_history is a record   *)
(* with the columns id, timestamp, claim_text and the eight extracted      *)
(* fields (decoded values, as bound to the INSERT); a row of               *)
(* claim_recommendations is a record with the columns id, claim_id, action,*)
(* priority, category and reasoning.                                       *)

\* the FOREIGN KEY ... ON DELETE CASCADE of claim_recommendations is enforced:
\* PostgreSQL always enforces it; a SQLite connection enforces foreign keys
\* only after PRAGMA foreign_keys = ON, which get_connection does not issue
ForeignKeysEnforced(db_type) == db_type = "postgresql"

\* a value the database driver can bind to a TEXT column
CanBind(value) == value.t \in {"str", "num", "bool", "null"}

\* data.get(key, default) on a decoded object
json_get(data, key, default) ==
    IF key \in DOMAIN data.v THEN data.v[key] ELSE default

\* the parameters of the INSERT, had the explanation the default of the
\* classification fields
claim_fields_ExplanationUnknown(data) ==
    [loss_type |-> json_get(data, <<"l","o","s","s","_","t","y","p","e">>, JStr(<<"U","n","k","n","o","w","n">>)),
     severity |-> json_get(data, <<"s","e","v","e","r","i","t","y">>, JStr(<<"U","n","k","n","o","w","n">>)),
     affected_assets |-> json_get(data, <<"a","f","f","e","c","t","e","d","_","a","s","s","e","t","s">>, JStr(<<"N","o","t"," ","s","p","e","c","i","f","i","e","d">>)),
     estimated_loss |-> json_get(data, <<"e","s","t","i","m","a","t","e","d","_","l","o","s","s">>, JStr(<<"N","o","t"," ","s","p","e","c","i","f","i","e","d">>)),
     incident_date |-> json_get(data, <<"i","n","c","i","d","e","n","t","_","d","a","t","e">>, JStr(<<"N","o","t"," ","s","p","e","c","i","f","i","e","d">>)),
     location |-> json_get(data, <<"l","o","c","a","t","i","o","n">>, JStr(<<"N","o","t"," ","s","p","e","c","i","f","i","e","d">>)),
     confidence |-> json_get(data, <<"c","o","n","f","i","d","e","n","c","e">>, JStr(<<"U","n","k","n","o","w","n">>)),
     extraction_explanation |-> json_get(data, <<"e","x","t","r","a","c","t","i","o","n","_","e","x","p","l","a","n","a","t","i","o","n">>, JStr(<<"U","n","k","n","o","w","n">>))]

\* the parameters of the INSERT of save_claim_to_history
claim_fields(data) ==
    [loss_type |-> json_get(data, <<"l","o","s","s","_","t","y","p","e">>, JStr(<<"U","n","k","n","o","w","n">>)),
     severity |-> json_get(data, <<"s","e","v","e","r","i","t","y">>, JStr(<<"U","n","k","n","o","w","n">>)),
     affected_assets |-> json_get(data, <<"a","f","f","e","c","t","e","d","_","a","s","s","e","t","s">>, JStr(<<"N","o","t"," ","s","p","e","c","i","f","i","e","d">>)),
     estimated_loss |-> json_get(data, <<"e","s","t","i","m","a","t","e","d","_","l","o","s","s">>, JStr(<<"N","o","t"," ","s","p","e","c","i","f","i","e","d">>)),
     incident_date |-> json_get(data, <<"i","n","c","i","d","e","n","t","_","d","a","t","e">>, JStr(<<"N","o","t"," ","s","p","e","c","i","f","i","e","d">>)),
     location |-> json_get(data, <<"l","o","c","a","t","i","o","n">>, JStr(<<"N","o","t"," ","s","p","e","c","i","f","i","e","d">>)),
     confidence |-> json_get(data, <<"c","o","n","f","i","d","e","n","c","e">>, JStr(<<"U","n","k","n","o","w","n">>)),
     extraction_explanation |-> json_get(data, <<"e","x","t","r","a","c","t","i","o","n","_","e","x","p","l","a","n","a","t","i","o","n">>, JStr(<< >>))]

\* save_claim_to_history raises: the connection fails, the argument has no
\* get method, or a parameter cannot be bound
save_claim_raises(store_up, data) ==
    \/ ~store_up
    \/ data.t # "obj"
    \/ \E f \in DOMAIN claim_fields(data) : ~CanBind(claim_fields(data)[f])

\* the lexeme of a JSON number that json.loads decodes to an int
IsIntLexeme(lexeme) ==
    /\ lexeme # << >>
    /\ \A i \in 1..Len(lexeme) : IsDigit(lexeme[i]) \/ (i = 1 /\ lexeme[i] = "-")
    /\ lexeme # <<"-">>

\* what a SELECT reads back from a TEXT column the value was bound to: a
\* str as it is and None as NULL; an int as its decimal digits (ints that
\* fit 64 bits); a float as the text of its repr, whose digits are not
\* worked out here; True and False as '1' and '0' on SQLite, where sqlite3
\* binds a bool as an integer, and as 'true' and 'false' on PostgreSQL
column_text(db_type, value) ==
    IF value.t = "num"
    THEN IF IsIntLexeme(value.v)
         THEN JStr(IF value.v = <<"-","0">> THEN <<"0">> ELSE value.v)
         ELSE JStr(<<"<repr of float>">> \o value.v)
    ELSE IF value.t = "bool"
    THEN IF db_type = "postgresql" THEN JStr(value.v)
         ELSE JStr(IF value.v = <<"t","r","u","e">> THEN <<"1">> ELSE <<"0">>)
    ELSE value

\* the row save_claim_to_history inserts, as the table holds it
claim_row(db_type, id, timestamp, claim_text, data) ==
    The({ [id |-> id, timestamp |-> timestamp, claim_text |-> claim_text,
           loss_type |-> column_text(db_type, f.loss_type),
           severity |-> column_text(db_type, f.severity),
           affected_assets |-> column_text(db_type, f.affected_assets),
           estimated_loss |-> column_text(db_type, f.estimated_loss),
           incident_date |-> column_text(db_type, f.incident_date),
           location |-> column_text(db_type, f.location),
           confidence |-> column_text(db_type, f.confidence),
           extraction_explanation |-> column_text(db_type, f.extraction_explanation)]
          : f \in {claim_fields(data)} })

\* get_history_by_id(record_id) on the rows history; NoResult is None
get_history_by_id(history, record_id) ==
    IF \E c \in history : c.id = record_id
    THEN CHOOSE c \in history : c.id = record_id
    ELSE NoResult

\* the id of a new row, had the column been INTEGER PRIMARY KEY without
\* AUTOINCREMENT: one more than the largest id stored
next_record_id_LargestStored(history, seq) ==
    IF history = {} THEN 1
    ELSE (CHOOSE m \in {c.id : c \in history} :
              \A c \in history : c.id <= m) + 1

\* the id a new row of claim_history gets: AUTOINCREMENT and SERIAL draw it
\* from a sequence that is never set back, seq being the last id drawn
next_record_id(history, seq) == seq + 1

\* the rows save_recommendations_to_history inserts, ids following last_id
recommendation_rows(last_id, claim_id, recs) ==
    {[id |-> last_id + i, claim_id |-> claim_id, action |-> recs[i].action,
      priority |-> recs[i].priority, category |-> recs[i].category,
      reasoning |-> recs[i].reasoning] : i \in 1..Len(recs)}

\* what a call of save_recommendations_to_history does: whether it raises,
\* what it returns, the rows it commits and the ids it draws.  An empty list
\* returns 0 before a connection is opened.  Where foreign keys are enforced
\* and claim_id is not stored, the first INSERT raises, so nothing is
\* committed, and the sequence keeps the id it drew.
save_recommendations_to_history(db_type, history, last_id, claim_id, recs) ==
    IF recs = << >>
    THEN [raises |-> FALSE, returned |-> 0, rows |-> {}, drawn |-> 0]
    ELSE IF ForeignKeysEnforced(db_type) /\ claim_id \notin {c.id : c \in history}
    THEN [raises |-> TRUE, returned |-> 0, rows |-> {}, drawn |-> 1]
    ELSE [raises |-> FALSE, returned |-> Len(recs),
          rows |-> recommendation_rows(last_id, claim_id, recs),
          drawn |-> Len(recs)]

\* the CASE priority ... END of the ORDER BY, with the priorities in the
\* opposite order
priority_rank_LowFirst(priority) ==
    IF priority = "Low" THEN 1
    ELSE IF priority = "Medium" THEN 2
    ELSE IF priority = "High" THEN 3
    ELSE IF priority = "Critical" THEN 4
    ELSE 5

\* the CASE priority ... END of the ORDER BY
priority_rank(priority) ==
    IF priority = "Critical" THEN 1
    ELSE IF priority = "High" THEN 2
    ELSE IF priority = "Medium" THEN 3
    ELSE IF priority = "Low" THEN 4
    ELSE 5

\* row q comes before row r under ORDER BY CASE priority ... END, id
recommendation_before(q, r) ==
    \/ priority_rank(q.priority) < priority_rank(r.priority)
    \/ priority_rank(q.priority) = priority_rank(r.priority) /\ q.id < r.id

\* get_recommendations_by_claim_id(claim_id) on the rows recs: the selected
\* columns of the rows of the claim, in the order of the ORDER BY
get_recommendations_by_claim_id(recs, claim_id) ==
    The({ [k \in 1..Cardinality(rows) |->
              The({ [action |-> r.action, priority |-> r.priority,
                     category |-> r.category, reasoning |-> r.reasoning]
                    : r \in {q \in rows :
                                Cardinality({b \in rows : recommendation_before(b, q)})
                                    = k - 1} })]
          : rows \in {{r \in recs : r.claim_id = claim_id}} })

\* the lists SELECT ... ORDER BY timestamp DESC LIMIT ? may return on rows:
\* the first limit rows of an ordering by descending timestamp.  The ORDER BY
\* names no second key, so rows of one timestamp come in an order the engine
\* is free to choose; CURRENT_TIMESTAMP has a resolution of one second on
\* SQLite.
rows_by_timestamp_desc(rows, limit) ==
    { SubSeq(order, 1, IF limit < Len(order) THEN limit ELSE Len(order))
      : order \in { o \in [1..Cardinality(rows) -> rows] :
                      /\ \A i, j \in DOMAIN o : i # j => o[i] # o[j]
                      /\ \A i, j \in DOMAIN o :
                             i < j => o[i].timestamp >= o[j].timestamp } }

\* get_all_history(limit) on the rows history: the lists it may return
get_all_history(history, limit) == rows_by_timestamp_desc(history, limit)

\* search_history(keyword, severity, limit) on the rows history: the lists it
\* may return.  An empty keyword or severity, like None, adds no condition;
\* LIKE and ILIKE match a keyword without % or _ anywhere in claim_text,
\* ignoring the case of ASCII letters.
search_history(history, keyword, severity, limit) ==
    rows_by_timestamp_desc(
        {c \in history :
            /\ keyword = << >> \/ str_contains(str_lower(c.claim_text), str_lower(keyword))
            /\ severity = << >> \/ c.severity = JStr(severity)},
        limit)

\* what delete_history_item(record_id) returns: rowcount > 0
delete_history_item_returned(history, record_id) ==
    Cardinality({c \in history : c.id = record_id}) > 0

\* what clear_all_history() returns: rowcount
clear_all_history_returned(history) == Cardinality(history)

\* the rows afterwards, had the recommendations of record_id been deleted by
\* the function itself
rows_after_delete_OwnCascade(db_type, history, recs, record_id) ==
    [history |-> {c \in history : c.id # record_id},
     recs |-> {r \in recs : r.claim_id # record_id}]

\* DELETE FROM claim_history WHERE id = ?: the rows of both tables afterwards
rows_after_delete(db_type, history, recs, record_id) ==
    [history |-> {c \in history : c.id # record_id},
     recs |-> IF ForeignKeysEnforced(db_type)
              THEN {r \in recs : r.claim_id # record_id}
              ELSE recs]

\* DELETE FROM claim_history: the rows of both tables afterwards
rows_after_clear(db_type, history, recs) ==
    [history |-> {},
     recs |-> IF ForeignKeysEnforced(db_type)
              THEN {r \in recs : r.claim_id \notin {c.id : c \in history}}
              ELSE recs]

\* DELETE FROM claim_recommendations WHERE claim_id = ?: the rows afterwards
rows_after_delete_recommendations(recs, claim_id) ==
    {r \in recs : r.claim_id # claim_id}

\* has_recommendations(claim_id) on the rows recs
has_recommendations_in(recs, claim_id) ==
    Cardinality({r \in recs : r.claim_id = claim_id}) > 0

-----------------------------------------------------------------------------
(* The configuration of database.py.  environ and secrets map the names    *)
(* that are set to their values; a secrets file that cannot be read is the  *)
(* empty mapping, because the lookup then raises and the bare except moves  *)
(* on to the environment.                                                   *)

\* os.getenv(key, default), and st.secrets.get(key, default)
os_getenv(env, key, default) == IF key \in DOMAIN env THEN env[key] ELSE default

\* the backend a lowercased DATABASE_TYPE names; every test in database.py
\* compares it with "postgresql" and takes anything else for SQLite
type_name(chars) ==
    IF chars = <<"p","o","s","t","g","r","e","s","q","l">> THEN "postgresql"
    ELSE IF chars = <<"s","q","l","i","t","e">> THEN "sqlite"
    ELSE "other"

\* the branch taken by `if db_type == "postgresql": ... else: ...`
backend_of(db_type) == IF db_type = "postgresql" THEN "postgresql" ELSE "sqlite"

\* the module-level DATABASE_TYPE, computed when database.py is imported
module_DATABASE_TYPE(env) ==
    type_name(str_lower(os_getenv(env, "DATABASE_TYPE", <<"s","q","l","i","t","e">>)))

\* _config_cache before the first call
NoConfig == [type |-> "none", url |-> << >>]

\* get_database_config(): the pair it returns, which is also _config_cache
\* afterwards.  The cache is returned if it is filled; otherwise the secrets
\* are used if they hold DATABASE_TYPE, and the environment if not.
get_database_config(cache, secret, env) ==
    IF cache # NoConfig
    THEN cache
    ELSE IF "DATABASE_TYPE" \in DOMAIN secret
    THEN [type |-> type_name(str_lower(os_getenv(secret, "DATABASE_TYPE", <<"s","q","l","i","t","e">>))),
          url |-> os_getenv(secret, "DATABASE_URL", << >>)]
    ELSE [type |-> type_name(str_lower(os_getenv(env, "DATABASE_TYPE", <<"s","q","l","i","t","e">>))),
          url |-> os_getenv(env, "DATABASE_URL", << >>)]

\* get_connection() raises for the configuration config: PostgreSQL without
\* a URL is a ValueError; psycopg2 is imported only when the module-level
\* DATABASE_TYPE is "postgresql", so without it psycopg2.connect is a
\* NameError that the except turns into a ConnectionError
get_connection_raises(config, module_type) ==
    /\ config.type = "postgresql"
    /\ config.url = << >> \/ module_type # "postgresql"

\* get_cursor(conn) raises: RealDictCursor is imported with psycopg2
get_cursor_raises(config, module_type) ==
    config.type = "postgresql" /\ module_type # "postgresql"

\* what a function that asks for the configuration did: the backend it took
\* from get_database_config, the dialect it took from DATABASE_TYPE ("" if it
\* reads none), and whether it raised
ConfigCall(fn, backend, dialect, raises) ==
    [fn |-> fn, backend |-> backend, dialect |-> dialect, raises |-> raises]

NoCall == ConfigCall("", "", "", FALSE)

-----------------------------------------------------------------------------
(* The request cycle of app.py: process_claim, main, display_results.      *)

\* marks a model call that raised instead of replying
ApiRaises == <<"<raises>">>

\* key in x: raises TypeError on a number, a boolean and None
py_in_raises(x) == x.t \in {"num", "bool", "null"}

\* key in x for a dict (its keys), a list (its items) and a str (substring)
py_in(key, x) ==
    IF x.t = "obj" THEN key \in DOMAIN x.v
    ELSE IF x.t = "arr" THEN \E i \in 1..Len(x.v) : x.v[i] = JStr(key)
    ELSE str_contains(x.v, key)

\* process_claim: the error structure of its except branch, or the parsed reply
process_claim(api) ==
    IF api = ApiRaises
    THEN JObj([k \in {<<"e","r","r","o","r">>, <<"d","e","t","a","i","l","s">>} |->
                 IF k = <<"e","r","r","o","r">> THEN JStr(<<"API Error">>)
                 ELSE JStr(<<"<exception text>">>)])
    ELSE parse_gemini_response(api)

RequiredFields ==
    <<<<"l","o","s","s","_","t","y","p","e">>, <<"s","e","v","e","r","i","t","y">>, <<"a","f","f","e","c","t","e","d","_","a","s","s","e","t","s">>, <<"e","s","t","i","m","a","t","e","d","_","l","o","s","s">>,
      <<"i","n","c","i","d","e","n","t","_","d","a","t","e">>, <<"l","o","c","a","t","i","o","n">>, <<"c","o","n","f","i","d","e","n","c","e">>, <<"e","x","t","r","a","c","t","i","o","n","_","e","x","p","l","a","n","a","t","i","o","n">>>>

\* the required fields that are not in data or hold the sentinel "Unknown"
missing_fields_SentinelIsMissing(data) ==
    SelectSeq(RequiredFields,
              LAMBDA field : ~py_in(field, data)
                                \/ data.v[field] = JStr(<<"U","n","k","n","o","w","n">>))

\* validate_extracted_data(data)[1]: the required fields not in data
missing_fields(data) ==
    SelectSeq(RequiredFields, LAMBDA field : ~py_in(field, data))

\* validate_extracted_data(data): the tuple (is_valid, missing_fields)
validate_extracted_data(data) ==
    The({ [is_valid |-> Len(missing) = 0, missing_fields |-> missing] :
            missing \in {missing_fields(data)} })

\* bool(x)
py_truthy(x) ==
    IF x.t = "str" THEN x.v # << >>
    ELSE IF x.t = "num"
    THEN \E i \in 1..Len(x.v) :
             /\ x.v[i] \notin {"0", ".", "-"}
             /\ \A j \in 1..i : x.v[j] \notin {"e", "E"}
    ELSE IF x.t = "bool" THEN x.v = <<"t","r","u","e">>
    ELSE IF x.t = "null" THEN FALSE
    ELSE IF x.t = "arr" THEN Len(x.v) # 0
    ELSE DOMAIN x.v # {}

CompletenessSentinels ==
    {JStr(<<"U","n","k","n","o","w","n">>), JStr(<<"N","o","t"," ","s","p","e","c","i","f","i","e","d">>), JStr(<<"N","/","A">>), JStr(<< >>)}

\* the test with the value lower-cased before it is compared
is_filled_AnyCase(value) ==
    /\ py_truthy(value)
    /\ IF value.t = "str"
       THEN JStr(str_lower(value.v)) \notin {JStr(str_lower(l.v)) : l \in CompletenessSentinels}
       ELSE TRUE

\* value and value not in ["Unknown", "Not specified", "N/A", ""]
is_filled(value) ==
    /\ py_truthy(value)
    /\ value \notin CompletenessSentinels

RECURSIVE Float(_, _)
\* the float num / den, den a power of ten, in lowest terms of ten
Float(num, den) ==
    IF den > 1 /\ num % 10 = 0 THEN Float(num \div 10, den \div 10)
    ELSE [num |-> num, den |-> den]

\* calculate_completeness_score(data): the tuple (filled_count, total_count,
\* percentage).  filled_count / 8 is the exact float filled_count * 125 / 1000
calculate_completeness_score(data) ==
    The({ [filled_count |-> filled,
           total_count |-> Len(RequiredFields),
           percentage |-> Float(filled * 125 * 100, 1000)] :
            filled \in {Cardinality({i \in 1..Len(RequiredFields) :
                           is_filled(json_get(data, RequiredFields[i], JStr(<< >>)))})} })

QuoteChars == {"'", "\""}

\* the length of the longest run of [^'"] that starts at position i of s
non_quote_run(s, i) ==
    CHOOSE n \in 0..(Len(s) - i + 1) :
        /\ \A k \in i..(i + n - 1) : s[k] \notin QuoteChars
        /\ i + n > Len(s) \/ s[i + n] \in QuoteChars

RECURSIVE findall_quoted(_, _)
\* re.findall(r"['\"]([^'\"]+)['\"]", s), scanning from position i: a match
\* starts at a quote, takes the longest run without a quote, which must not
\* be empty, and ends with the quote after it; the scan resumes behind it
findall_quoted(s, i) ==
    IF i > Len(s) THEN << >>
    ELSE IF s[i] \notin QuoteChars THEN findall_quoted(s, i + 1)
    ELSE The({ IF n >= 1 /\ i + n + 1 <= Len(s)
               THEN <<SubSeq(s, i + 1, i + n)>> \o findall_quoted(s, i + n + 2)
               ELSE findall_quoted(s, i + 1) :
                 n \in {non_quote_run(s, i + 1)} })

\* extract_keywords_from_explanation(explanation)
extract_keywords_from_explanation(explanation) == findall_quoted(explanation, 1)

\* the text before {m.group()} in the replacement of highlight_keywords_in_text
HighlightOpen == <<"<","s","p","a","n"," ","s","t","y","l","e","=","\"","b","a","c","k","g","r","o","u","n","d","-","c","o","l","o","r",":"," ","#","f","f","e","b","3","b",";"," ","c","o","l","o","r",":"," ","#","0","0","0","0","0","0",";"," ","p","a","d","d","i","n","g",":"," ","2","p","x"," ","4","p","x",";"," ","b","o","r","d","e","r","-","r","a","d","i","u","s",":"," ","3","p","x",";"," ","f","o","n","t","-","w","e","i","g","h","t",":"," ","b","o","l","d",";","\"",">">>

\* the text after it
HighlightClose == <<"<","/","s","p","a","n",">">>

\* sorted(keywords, key=len, reverse=True): longest first, keywords of one
\* length in the order they have in the list
sorted_keywords(keywords) ==
    LET rank(i) == Cardinality({j \in 1..Len(keywords) :
                                   \/ Len(keywords[j]) > Len(keywords[i])
                                   \/ Len(keywords[j]) = Len(keywords[i]) /\ j < i}) + 1
    IN  [r \in 1..Len(keywords) |->
            keywords[CHOOSE i \in 1..Len(keywords) : rank(i) = r]]

\* the positions of low at which kw starts
match_starts(low, kw) ==
    {p \in 1..(Len(low) - Len(kw) + 1) :
        low[p] = kw[1] /\ SubSeq(low, p, p + Len(kw) - 1) = kw}

RECURSIVE leftmost_matches(_, _, _)
\* the matches a pattern of length n finds, scanning from position from: the
\* leftmost start, then the leftmost start behind that match, and so on
leftmost_matches(starts, from, n) ==
    IF \A p \in starts : p < from THEN << >>
    ELSE The({ <<m>> \o leftmost_matches(starts, m + n, n) :
                 m \in {CHOOSE p \in starts :
                            p >= from /\ \A q \in starts : q >= from => p <= q} })

RECURSIVE wrap_matches(_, _, _, _)
\* s[from:] with the match of length n at each of the positions wrapped
wrap_matches(s, starts, n, from) ==
    IF starts = << >> THEN SubSeq(s, from, Len(s))
    ELSE SubSeq(s, from, starts[1] - 1)
             \o HighlightOpen \o SubSeq(s, starts[1], starts[1] + n - 1) \o HighlightClose
             \o wrap_matches(s, Tail(starts), n, starts[1] + n)

\* re.compile(re.escape(keyword), re.IGNORECASE).sub(replacement, s); the
\* empty pattern matches before every character and at the end
pattern_sub(keyword, s) ==
    IF keyword = << >>
    THEN wrap_matches(s, [i \in 1..(Len(s) + 1) |-> i], 0, 1)
    ELSE wrap_matches(s, leftmost_matches(match_starts(str_lower(s), str_lower(keyword)),
                                          1, Len(keyword)),
                      Len(keyword), 1)

RECURSIVE highlight_each(_, _)
\* the loop over sorted_keywords
highlight_each(highlighted_text, keywords) ==
    IF keywords = << >> THEN highlighted_text
    ELSE highlight_each(pattern_sub(keywords[1], highlighted_text), Tail(keywords))

\* highlight_keywords_in_text(text, keywords)
highlight_keywords_in_text(text, keywords) ==
    highlight_each(text, sorted_keywords(keywords))

Message(kind, detail) == [kind |-> kind, detail |-> detail]

\* display_results returning after the warning, as it does after an error
display_results_WarningFatal(data) ==
    IF py_in(<<"e","r","r","o","r">>, data)
    THEN IF data.t # "obj" THEN << Message("exception", <<"TypeError">>) >>
         ELSE << Message("error", data.v[<<"e","r","r","o","r">>].v) >>
              \o (IF <<"d","e","t","a","i","l","s">> \in DOMAIN data.v
                  THEN << Message("error", <<"Details">>) >> ELSE << >>)
              \o (IF <<"r","a","w","_","r","e","s","p","o","n","s","e">> \in DOMAIN data.v
                  THEN << Message("code", data.v[<<"r","a","w","_","r","e","s","p","o","n","s","e">>].v) >> ELSE << >>)
    ELSE IF missing_fields(data) # << >>
    THEN << Message("warning", <<"Some fields are missing: ">>
                                  \o str_join(<<", ">>, missing_fields(data))) >>
    ELSE << Message("success", <<"Claim successfully normalized!">>) >>
         \o (IF data.t # "obj" THEN << Message("exception", <<"AttributeError">>) >>
             ELSE << Message("tabs", << >>) >>)

\* what display_results shows; "exception" is an uncaught exception, which
\* ends the script run
display_results(data) ==
    IF py_in(<<"e","r","r","o","r">>, data)
    THEN IF data.t # "obj" THEN << Message("exception", <<"TypeError">>) >>
         ELSE << Message("error", data.v[<<"e","r","r","o","r">>].v) >>
              \o (IF <<"d","e","t","a","i","l","s">> \in DOMAIN data.v
                  THEN << Message("error", <<"Details">>) >> ELSE << >>)
              \o (IF <<"r","a","w","_","r","e","s","p","o","n","s","e">> \in DOMAIN data.v
                  THEN << Message("code", data.v[<<"r","a","w","_","r","e","s","p","o","n","s","e">>].v) >> ELSE << >>)
    ELSE (IF missing_fields(data) # << >>
          THEN << Message("warning", <<"Some fields are missing: ">>
                                        \o str_join(<<", ">>, missing_fields(data))) >>
          ELSE << >>)
         \o << Message("success", <<"Claim successfully normalized!">>) >>
         \o (IF data.t # "obj" THEN << Message("exception", <<"AttributeError">>) >>
             ELSE << Message("tabs", << >>) >>)

\* main saving whatever process_claim returned
should_save_Always(data) == TRUE

\* the condition of main under which the result is saved
should_save(data) == ~py_in(<<"e","r","r","o","r">>, data)

\* main once process_claim has returned data
main_after_process(claim_input, data, store_up, next_id) ==
    IF py_in_raises(data)
    THEN [claim_input |-> claim_input, extracted_data |-> data,
          save_called |-> FALSE, record_id |-> 0, store_error |-> "none",
          shown |-> << Message("exception", <<"TypeError">>) >>]
    ELSE IF ~should_save(data)
    THEN [claim_input |-> claim_input, extracted_data |-> data,
          save_called |-> FALSE, record_id |-> 0, store_error |-> "none",
          shown |-> display_results(data)]
    ELSE IF save_claim_raises(store_up, data)
    THEN [claim_input |-> claim_input, extracted_data |-> data,
          save_called |-> TRUE, record_id |-> 0, store_error |-> "save",
          shown |-> << Message("warning", <<"Could not save to history">>) >>
                        \o display_results(data)]
    ELSE [claim_input |-> claim_input, extracted_data |-> data,
          save_called |-> TRUE, record_id |-> next_id, store_error |-> "none",
          shown |-> << Message("toast", <<"Saved to history">>) >>
                        \o display_results(data)]

\* one run of the Normalize Claim branch of main: what it extracted, whether
\* it called save_claim_to_history, the id it got (0: none) and what it showed
main_run(claim_input, api, store_up, next_id) ==
    IF str_strip(claim_input) = << >>
    THEN [claim_input |-> claim_input, extracted_data |-> NoResult,
          save_called |-> FALSE, record_id |-> 0, store_error |-> "none",
          shown |-> << Message("warning", <<"Please enter a claim description first!">>) >>]
    ELSE The({ main_after_process(claim_input, data, store_up, next_id)
               : data \in {process_claim(api)} })

\* one run of the script app.py with the Normalize Claim button pressed:
\* init_database() runs at the top of the script, outside any try, and main
\* runs only if it returned; init_up tells whether the store can be reached
\* at that moment, store_up whether it can when main saves
script_run(init_up, claim_input, api, store_up, next_id) ==
    IF ~init_up
    THEN [claim_input |-> claim_input, extracted_data |-> NoResult,
          save_called |-> FALSE, record_id |-> 0, store_error |-> "init",
          shown |-> << Message("exception", <<"init_database">>) >>]
    ELSE main_run(claim_input, api, store_up, next_id)

-----------------------------------------------------------------------------
(* The reply texts handed to parse_gemini_response that are explored: a    *)
(* body, optionally wrapped in a fenced code block and in whitespace.      *)

MaxBodyPieces == 2

BodyPieces ==
    {<<"{","\"","a","\"",":","1","}">>, <<"[","1","]">>, <<"x">>, <<"{">>, <<"}">>, <<"\n">>, Fence}

RECURSIVE Concat(_)
Concat(seqs) == IF seqs = << >> THEN << >> ELSE seqs[1] \o Concat(Tail(seqs))

Bodies ==
    {Concat(ps) : ps \in UNION {[1..n -> BodyPieces] : n \in 0..MaxBodyPieces}}

ReplyParts ==
    {p \in [lead : {<< >>, <<" ","\n">>},
            open : {<< >>, Fence},
            tag : {<< >>, <<"j","s","o","n">>, <<"p","y","t","h","o","n">>},
            afterOpen : {<< >>, <<"\n">>},
            body : Bodies,
            beforeClose : {<< >>, <<"\n">>},
            close : {<< >>, Fence},
            trail : {<< >>, <<"\n"," ">>}] :
        /\ p.open = << >> => (p.tag = << >> /\ p.afterOpen = << >>)
        /\ p.close = << >> => p.beforeClose = << >>}

\* the text between the opening fence line and the closing fence
Interior(p) == p.afterOpen \o p.body \o p.beforeClose

\* the text without the whitespace around it
Core(p) == p.open \o p.tag \o Interior(p) \o p.close

ReplyText(p) == p.lead \o Core(p) \o p.trail

NoParts ==
    [lead |-> << >>, open |-> << >>, tag |-> << >>, afterOpen |-> << >>,
     body |-> << >>, beforeClose |-> << >>, close |-> << >>, trail |-> << >>]

\* parse_gemini_response is not in use
ParseIdle ==
    /\ parse_pc = "idle"
    /\ reply_parts = NoParts
    /\ response_text = << >>
    /\ parse_result = NoResult

-----------------------------------------------------------------------------
(* The requests and the store calls that are explored.                     *)

MaxClaims == 2

MaxRecRows == 2

MaxClock == 2

MaxRuns == 1

ClaimText == <<"f","i","r","e">>

ClaimInputs == {ClaimText, <<" ">>}

\* the text of a JSON object with the given keys and string values
ObjectText(keys, values) ==
    <<"{">> \o str_join(<<",">>,
                 [i \in 1..Len(keys) |->
                     <<"\"">> \o keys[i] \o <<"\"",":","\"">> \o values[i] \o <<"\"">>])
        \o <<"}">>

ReplyPartial == ObjectText(<<<<"s","e","v","e","r","i","t","y">>, <<"c","o","n","f","i","d","e","n","c","e">>>>, <<<<"L","o","w">>, <<"H","i","g","h">>>>)

\* a reply whose severity and confidence are not on the scales of the prompt
ReplyOffScale == ObjectText(<<<<"s","e","v","e","r","i","t","y">>, <<"c","o","n","f","i","d","e","n","c","e">>>>, <<<<"E","x","t","r","e","m","e">>, <<"C","e","r","t","a","i","n">>>>)

ModelReplies == {ReplyPartial, ReplyOffScale, <<"n","o","t"," ","j","s","o","n">>, <<"[","1","]">>}

ApiOutcomes == {ApiRaises} \cup ModelReplies

\* the text and the mapping handed to save_claim_to_history directly
DirectClaimTexts == {ClaimText}

\* a mapping that holds three of the eight fields, one of them as a number
SaveSomeFields ==
    JObj([k \in {<<"l","o","s","s","_","t","y","p","e">>, <<"s","e","v","e","r","i","t","y">>, <<"e","s","t","i","m","a","t","e","d","_","l","o","s","s">>} |->
             IF k = <<"l","o","s","s","_","t","y","p","e">> THEN JStr(<<"F","i","r","e">>)
             ELSE IF k = <<"s","e","v","e","r","i","t","y">> THEN JStr(<<"E","x","t","r","e","m","e">>)
             ELSE JNum(<<"5","0","0","0">>)])

DirectSaveData == {JObj(EmptyDict), SaveSomeFields}

\* the lists handed to save_recommendations_to_history
StoreRecLists ==
    { << >>,
      <<DefaultRecommendation>>,
      << Rule1_LowConfidence(<<"l","o","w">>)[1],
         SeverityBranch(<<"h","i","g","h">>, <<"l","o","w">>, Zero)[1] >>,
      << Recommendation("Escalate", "Urgent", "Processing", <<"Off the scale.">>) >> }

NoRun ==
    [claim_input |-> << >>, extracted_data |-> NoResult, save_called |-> FALSE,
     record_id |-> 0, store_error |-> "none", shown |-> << >>]

\* the store and the page are not in use
StoreIdle ==
    /\ environ = << >>
    /\ secrets = << >>
    /\ DATABASE_TYPE = module_DATABASE_TYPE(environ)
    /\ config_cache = get_database_config(NoConfig, secrets, environ)
    /\ config_call = NoCall
    /\ now = 0
    /\ claim_history = {}
    /\ claim_recommendations = {}
    /\ claim_seq = 0
    /\ rec_seq = 0
    /\ run_count = 0
    /\ last_run = NoRun

-----------------------------------------------------------------------------
(* The argument mappings of generate_recommendations that are explored.    *)

\* marks a key the mapping does not hold
Absent == <<"<absent>">>

SeverityValues == {<<"L","o","w">>, <<"L","O","W">>, <<"M","e","d","i","u","m">>, <<"H","i","g","h">>, <<"C","r","i","t","i","c","a","l">>, <<"U","n","k","n","o","w","n">>}

ConfidenceValues == {<<"H","i","g","h">>, <<"h","i","g","h">>, <<"M","e","d","i","u","m">>, <<"L","o","w">>}

LossTypeValues == {<<"F","i","r","e">>, <<"T","h","e","f","t">>, <<"W","a","t","e","r"," ","D","a","m","a","g","e">>, <<"V","e","h","i","c","l","e"," ","C","o","l","l","i","s","i","o","n">>, <<"V","a","n","d","a","l","i","s","m">>, <<"T","h","e","f","t"," ","a","f","t","e","r"," ","F","i","r","e"," ","A","C","C","I","D","E","N","T",","," ","f","l","o","o","d","e","d">>}

EstimatedLossValues == {<< >>, <<"N","o","t"," ","s","p","e","c","i","f","i","e","d">>, <<"0">>, <<"$","5","0","0">>, <<"9","9","9","9",".","9","9">>, <<"$","1","0",",","0","0","0">>, <<"5","0","0","0","0">>, <<"5","0","0","0","0",".","5">>, <<"O","v","e","r"," ","$","2","0","0",",","0","0","0">>}

IncidentDateValues == {<<"N","o","t"," ","s","p","e","c","i","f","i","e","d">>, <<"U","N","K","N","O","W","N">>, <<"Y","e","s","t","e","r","d","a","y">>, <<"2","0","2","5","-","1","1","-","0","5">>}

LocationValues == {<<"u","n","k","n","o","w","n">>, <<"N","o","t"," ","S","p","e","c","i","f","i","e","d">>, <<"P","u","n","e">>}

FieldValues ==
    [loss_type |-> LossTypeValues, severity |-> SeverityValues,
     estimated_loss |-> EstimatedLossValues, incident_date |-> IncidentDateValues,
     location |-> LocationValues, confidence |-> ConfidenceValues]

EngineFields == {"loss_type", "severity", "estimated_loss", "incident_date", "location", "confidence"}

\* the mapping that holds exactly the keys chosen to be present
MappingOf(choice) ==
    [k \in {f \in DOMAIN choice : choice[f] # Absent} |-> choice[k]]

EngineInputs ==
    { MappingOf(c) : c \in [loss_type : LossTypeValues \cup {Absent},
                            severity : SeverityValues \cup {Absent},
                            estimated_loss : EstimatedLossValues \cup {Absent},
                            incident_date : IncidentDateValues \cup {Absent},
                            location : LocationValues \cup {Absent},
                            confidence : ConfidenceValues \cup {Absent}] }

\* no helper of utils.py is in use
UtilIdle ==
    /\ util_pc = "idle"
    /\ util_fn = ""
    /\ util_args = << >>
    /\ util_result = NoResult

\* generate_recommendations is not in use
RecIdle ==
    /\ rec_pc = "idle"
    /\ extracted_data = MappingOf([severity |-> Absent])
    /\ recommendations = << >>

InitRec ==
    /\ rec_pc = "call"
    /\ extracted_data \in EngineInputs
    /\ recommendations = << >>
    /\ ParseIdle
    /\ StoreIdle
    /\ UtilIdle

\* recommendations = generate_recommendations(extracted_data)
GenerateRecommendations ==
    /\ rec_pc = "call"
    /\ recommendations' = generate_recommendations(extracted_data)
    /\ rec_pc' = "returned"
    /\ UNCHANGED <<extracted_data, parseVars, storeVars, appVars, utilVars,
                   configVars>>

NextRec == GenerateRecommendations

SpecRec == InitRec /\ [][NextRec]_vars

InitParse ==
    /\ parse_pc = "call"
    /\ reply_parts \in ReplyParts
    /\ response_text = ReplyText(reply_parts)
    /\ parse_result = NoResult
    /\ RecIdle
    /\ StoreIdle
    /\ UtilIdle

\* parse_result = parse_gemini_response(response_text)
ParseGeminiResponse ==
    /\ parse_pc = "call"
    /\ parse_result' = parse_gemini_response(response_text)
    /\ parse_pc' = "returned"
    /\ UNCHANGED <<reply_parts, response_text, recVars, storeVars, appVars,
                   utilVars,
                   configVars>>

NextParse == ParseGeminiResponse

SpecParse == InitParse /\ [][NextParse]_vars

-----------------------------------------------------------------------------
(* The page and the store: init_database has created the empty tables.     *)

Init ==
    /\ \E t \in {<<"s","q","l","i","t","e">>, <<"p","o","s","t","g","r","e","s","q","l">>} :
           environ = [k \in {"DATABASE_TYPE", "DATABASE_URL"} |->
                         IF k = "DATABASE_TYPE" THEN t ELSE <<"postgresql://db">>]
    /\ secrets = << >>
    /\ DATABASE_TYPE = module_DATABASE_TYPE(environ)
    /\ config_cache = get_database_config(NoConfig, secrets, environ)
    /\ config_call = NoCall
    /\ now = 0
    /\ claim_history = {}
    /\ claim_recommendations = {}
    /\ claim_seq = 0
    /\ rec_seq = 0
    /\ run_count = 0
    /\ last_run = NoRun
    /\ RecIdle
    /\ ParseIdle
    /\ UtilIdle

\* time passes
Tick ==
    /\ now < MaxClock
    /\ now' = now + 1
    /\ UNCHANGED <<DATABASE_TYPE, claim_history, claim_recommendations,
                   claim_seq, rec_seq, appVars, recVars, parseVars, utilVars,
                   configVars>>

\* app.py runs with the Normalize Claim button pressed
ProcessClaim ==
    /\ run_count < MaxRuns
    /\ claim_seq < MaxClaims
    /\ \E init_up \in BOOLEAN, claim_input \in ClaimInputs, api \in ApiOutcomes,
          store_up \in BOOLEAN :
           \E run \in {script_run(init_up, claim_input, api, store_up,
                                  next_record_id(claim_history, claim_seq))} :
               /\ last_run' = run
               /\ run_count' = run_count + 1
               /\ IF run.record_id # 0
                  THEN /\ claim_history' = claim_history \cup
                              {claim_row(DATABASE_TYPE, run.record_id, now, claim_input,
                                         run.extracted_data)}
                       /\ claim_seq' = claim_seq + 1
                  ELSE UNCHANGED <<claim_history, claim_seq>>
    /\ UNCHANGED <<DATABASE_TYPE, now, claim_recommendations, rec_seq,
                   recVars, parseVars, utilVars,
                   configVars>>

\* save_claim_to_history(claim_text, data), called directly
SaveClaimToHistory ==
    /\ claim_seq < MaxClaims
    /\ \E claim_text \in DirectClaimTexts, data \in DirectSaveData :
           /\ ~save_claim_raises(TRUE, data)
           /\ claim_history' = claim_history \cup
                  {claim_row(DATABASE_TYPE, next_record_id(claim_history, claim_seq),
                             now, claim_text, data)}
           /\ claim_seq' = claim_seq + 1
    /\ UNCHANGED <<DATABASE_TYPE, now, claim_recommendations, rec_seq,
                   appVars, recVars, parseVars, utilVars,
                   configVars>>

\* save_recommendations_to_history(claim_id, recs)
SaveRecommendationsToHistory ==
    \E claim_id \in 1..MaxClaims, recs \in StoreRecLists :
        /\ rec_seq + Len(recs) <= MaxRecRows
        /\ \E call \in {save_recommendations_to_history(
                             DATABASE_TYPE, claim_history, rec_seq, claim_id, recs)} :
               /\ claim_recommendations' = claim_recommendations \cup call.rows
               /\ rec_seq' = rec_seq + call.drawn
        /\ UNCHANGED <<DATABASE_TYPE, now, claim_history, claim_seq,
                       appVars, recVars, parseVars, utilVars,
                   configVars>>

\* delete_history_item(record_id)
DeleteHistoryItem ==
    \E record_id \in 1..MaxClaims :
        \E after \in {rows_after_delete(DATABASE_TYPE, claim_history,
                                         claim_recommendations, record_id)} :
            /\ claim_history' = after.history
            /\ claim_recommendations' = after.recs
            /\ UNCHANGED <<DATABASE_TYPE, now, claim_seq, rec_seq,
                           appVars, recVars, parseVars, utilVars,
                   configVars>>

\* clear_all_history()
ClearAllHistory ==
    \E after \in {rows_after_clear(DATABASE_TYPE, claim_history,
                                    claim_recommendations)} :
        /\ claim_history' = after.history
        /\ claim_recommendations' = after.recs
        /\ UNCHANGED <<DATABASE_TYPE, now, claim_seq, rec_seq,
                       appVars, recVars, parseVars, utilVars,
                   configVars>>

\* the pages in use while the clock stands still: records are saved by
\* main only
Next ==
    \/ ProcessClaim
    \/ SaveRecommendationsToHistory
    \/ DeleteHistoryItem
    \/ ClearAllHistory

Spec == Init /\ [][Next]_vars

\* delete_recommendations_by_claim_id(claim_id)
DeleteRecommendationsByClaimId ==
    \E claim_id \in 1..MaxClaims :
        /\ claim_recommendations' =
               rows_after_delete_recommendations(claim_recommendations, claim_id)
        /\ UNCHANGED <<DATABASE_TYPE, now, claim_history, claim_seq, rec_seq,
                       appVars, recVars, parseVars, utilVars,
                   configVars>>

\* the functions of database.py that write, called directly while the clock
\* stands still
NextStore ==
    \/ SaveClaimToHistory
    \/ SaveRecommendationsToHistory
    \/ DeleteHistoryItem
    \/ ClearAllHistory
    \/ DeleteRecommendationsByClaimId

SpecStore == Init /\ [][NextStore]_vars

\* the functions that write claim_history, called directly while time passes
NextHistory ==
    \/ Tick
    \/ SaveClaimToHistory
    \/ DeleteHistoryItem
    \/ ClearAllHistory

SpecHistory == Init /\ [][NextHistory]_vars

-----------------------------------------------------------------------------
(* The configuration: database.py has been imported, and the functions     *)
(* that open connections and choose the dialect are called.                *)

\* the values DATABASE_TYPE and DATABASE_URL are set to
ConfigTypeValues == {<<"s","q","l","i","t","e">>, <<"p","o","s","t","g","r","e","s","q","l">>, <<"P","o","s","t","g","r","e","S","Q","L">>}

ConfigUrlValues == {<<"postgresql://db">>}

\* the environments and the secrets: each name unset, or set to a value
ConfigMappings ==
    { [k \in {n \in {"DATABASE_TYPE", "DATABASE_URL"} : choice[n] # Absent} |-> choice[k]]
      : choice \in [DATABASE_TYPE : ConfigTypeValues \cup {Absent},
                    DATABASE_URL : ConfigUrlValues \cup {Absent}] }

InitConfig ==
    /\ environ \in ConfigMappings
    /\ secrets \in ConfigMappings
    /\ DATABASE_TYPE = module_DATABASE_TYPE(environ)
    /\ config_cache = NoConfig
    /\ config_call = NoCall
    /\ now = 0
    /\ claim_history = {}
    /\ claim_recommendations = {}
    /\ claim_seq = 0
    /\ rec_seq = 0
    /\ run_count = 0
    /\ last_run = NoRun
    /\ RecIdle
    /\ ParseIdle
    /\ UtilIdle

\* get_connection()
GetConnection ==
    /\ \E config \in {get_database_config(config_cache, secrets, environ)} :
           /\ config_cache' = config
           /\ config_call' = ConfigCall("get_connection", backend_of(config.type), "",
                                        get_connection_raises(config, DATABASE_TYPE))
    /\ UNCHANGED <<environ, secrets, storeVars, appVars, recVars, parseVars, utilVars>>

\* get_cursor(conn), on a connection get_connection returned
GetCursor ==
    /\ config_call.fn = "get_connection"
    /\ ~config_call.raises
    /\ \E config \in {get_database_config(config_cache, secrets, environ)} :
           /\ config_cache' = config
           /\ config_call' = ConfigCall("get_cursor", backend_of(config.type), "",
                                        get_cursor_raises(config, DATABASE_TYPE))
    /\ UNCHANGED <<environ, secrets, storeVars, appVars, recVars, parseVars, utilVars>>

\* adapt_placeholder(query)
AdaptPlaceholder ==
    /\ \E config \in {get_database_config(config_cache, secrets, environ)} :
           /\ config_cache' = config
           /\ config_call' = ConfigCall("adapt_placeholder", backend_of(config.type),
                                        "", FALSE)
    /\ UNCHANGED <<environ, secrets, storeVars, appVars, recVars, parseVars, utilVars>>

\* init_database(): the connection comes from get_connection, the schema
\* from the branch on DATABASE_TYPE
InitDatabase ==
    /\ \E config \in {get_database_config(config_cache, secrets, environ)} :
           /\ config_cache' = config
           /\ config_call' = ConfigCall("init_database", backend_of(config.type),
                                        backend_of(DATABASE_TYPE),
                                        get_connection_raises(config, DATABASE_TYPE))
    /\ UNCHANGED <<environ, secrets, storeVars, appVars, recVars, parseVars, utilVars>>

NextConfig ==
    \/ GetConnection
    \/ GetCursor
    \/ AdaptPlaceholder
    \/ InitDatabase

SpecConfig == InitConfig /\ [][NextConfig]_vars

-----------------------------------------------------------------------------

(* What generate_recommendations reads of its argument, for the claims.    *)

ArgSeverity == str_lower(dict_get(extracted_data, "severity", <<"U","n","k","n","o","w","n">>))

ArgConfidence == str_lower(dict_get(extracted_data, "confidence", <<"U","n","k","n","o","w","n">>))

ArgLossType == str_lower(dict_get(extracted_data, "loss_type", <<"U","n","k","n","o","w","n">>))

ArgLoss == parse_estimated_loss(dict_get(extracted_data, "estimated_loss", <<"0">>))

ArgIncidentDate == str_lower(dict_get(extracted_data, "incident_date", <<"N","o","t"," ","s","p","e","c","i","f","i","e","d">>))

ArgLocation == str_lower(dict_get(extracted_data, "location", <<"N","o","t"," ","s","p","e","c","i","f","i","e","d">>))

ActionsOf(recs) == {recs[i].action : i \in 1..Len(recs)}

RecsWithAction(recs, a) == {i \in 1..Len(recs) : recs[i].action = a}

FastTrackActions == {"Fast-track Approval", "Simple Phone Verification"}

MediumActions ==
    {"Standard Review Process", "Request Photos/Documentation",
     "Schedule Assessment Within 5 Days"}

HighActions ==
    {"Detailed Investigation Required", "Assign Senior Adjuster",
     "Schedule On-site Inspection"}

HighValueActions == {"Supervisor Approval Required", "Request Independent Assessment"}

FastTrackCase ==
    /\ ArgSeverity = <<"l","o","w">>
    /\ ArgConfidence = <<"h","i","g","h">>
    /\ FloatLess(ArgLoss, 10000)

MediumCase == ~FastTrackCase /\ ArgSeverity = <<"m","e","d","i","u","m">>

HighCase ==
    ~FastTrackCase /\ ~MediumCase /\ ArgSeverity \in {<<"h","i","g","h">>, <<"c","r","i","t","i","c","a","l">>}

\* C1: the severity rules are one if/elif/elif chain: the fast-track pair is
\* in the output iff severity is low, confidence is high and the parsed loss
\* is below 10000; otherwise the medium triple iff severity is medium;
\* otherwise the high triple iff severity is high or critical; a low severity
\* without high confidence or with a loss of 10000 or more gets no
\* severity-branch action.
C1_SeverityBranchChain ==
    rec_pc = "returned" =>
        LET A == ActionsOf(recommendations)
        IN  /\ IF FastTrackCase THEN FastTrackActions \subseteq A
                                ELSE FastTrackActions \cap A = {}
            /\ IF MediumCase THEN MediumActions \subseteq A
                             ELSE MediumActions \cap A = {}
            /\ IF HighCase THEN HighActions \subseteq A
                           ELSE HighActions \cap A = {}
            /\ (ArgSeverity = <<"l","o","w">> /\ ~FastTrackCase)
                   => (FastTrackActions \cup MediumActions \cup HighActions) \cap A = {}

C1_Witness_LowSeverityNoBranch ==
    /\ rec_pc = "returned"
    /\ ArgSeverity = <<"l","o","w">>
    /\ ArgConfidence = <<"m","e","d","i","u","m">>
    /\ FloatLess(ArgLoss, 10000)
    /\ recommendations # << >>
    /\ (FastTrackActions \cup MediumActions \cup HighActions)
           \cap ActionsOf(recommendations) = {}

LossTypeKeywords ==
    {<<"t","h","e","f","t">>, <<"f","i","r","e">>, <<"f","l","o","o","d">>, <<"w","a","t","e","r">>, <<"a","c","c","i","d","e","n","t">>, <<"c","o","l","l","i","s","i","o","n">>}

AnythingMissing ==
    \/ ArgIncidentDate \in {<<"n","o","t"," ","s","p","e","c","i","f","i","e","d">>, <<"u","n","k","n","o","w","n">>}
    \/ ArgLocation \in {<<"n","o","t"," ","s","p","e","c","i","f","i","e","d">>, <<"u","n","k","n","o","w","n">>}
    \/ FloatIsZero(ArgLoss)

NoRuleFires ==
    /\ ArgConfidence # <<"l","o","w">>
    /\ ~FastTrackCase /\ ~MediumCase /\ ~HighCase
    /\ ~FloatGreater(ArgLoss, 50000)
    /\ \A kw \in LossTypeKeywords : ~str_contains(ArgLossType, kw)
    /\ ~AnythingMissing
    /\ ~str_contains(ArgIncidentDate, <<"t","o","d","a","y">>)
    /\ ~str_contains(ArgIncidentDate, <<"y","e","s","t","e","r","d","a","y">>)

\* C2: the returned list is never empty, and the fallback "Standard Claim
\* Processing" (Medium, Processing) is in it iff none of rules 1-8 fired, in
\* which case it is the only element.
C2_NonEmptyAndFallback ==
    rec_pc = "returned" =>
        /\ Len(recommendations) >= 1
        /\ ("Standard Claim Processing" \in ActionsOf(recommendations)) <=> NoRuleFires
        /\ NoRuleFires =>
               /\ Len(recommendations) = 1
               /\ recommendations[1].action = "Standard Claim Processing"
               /\ recommendations[1].priority = "Medium"
               /\ recommendations[1].category = "Processing"

C2_Witness_FallbackOnly ==
    /\ rec_pc = "returned"
    /\ NoRuleFires
    /\ ActionsOf(recommendations) = {"Standard Claim Processing"}

\* C9: the rule 5 pair "Supervisor Approval Required" (Critical,
\* Administrative) and "Request Independent Assessment" (High, Verification)
\* is in the output iff the parsed loss is strictly greater than 50000,
\* whatever the severity, confidence and loss type.
C9_HighValueIndependent ==
    rec_pc = "returned" =>
        LET A == ActionsOf(recommendations)
        IN  IF FloatGreater(ArgLoss, 50000)
            THEN /\ \E i \in 1..Len(recommendations) :
                        /\ recommendations[i].action = "Supervisor Approval Required"
                        /\ recommendations[i].priority = "Critical"
                        /\ recommendations[i].category = "Administrative"
                 /\ \E i \in 1..Len(recommendations) :
                        /\ recommendations[i].action = "Request Independent Assessment"
                        /\ recommendations[i].priority = "High"
                        /\ recommendations[i].category = "Verification"
            ELSE HighValueActions \cap A = {}

C9_Witness_CriticalFireHighValue ==
    /\ rec_pc = "returned"
    /\ ArgSeverity = <<"c","r","i","t","i","c","a","l">>
    /\ dict_get(extracted_data, "estimated_loss", Absent) = <<"O","v","e","r"," ","$","2","0","0",",","0","0","0">>
    /\ ArgLossType = <<"f","i","r","e">>
    /\ {"Detailed Investigation Required", "Supervisor Approval Required",
        "Request Fire Department Report"} \subseteq ActionsOf(recommendations)

MissingItems ==
    SelectSeq(<<"incident date", "location", "cost estimate">>,
              LAMBDA item :
                  \/ item = "incident date"
                         /\ ArgIncidentDate \in {<<"n","o","t"," ","s","p","e","c","i","f","i","e","d">>, <<"u","n","k","n","o","w","n">>}
                  \/ item = "location"
                         /\ ArgLocation \in {<<"n","o","t"," ","s","p","e","c","i","f","i","e","d">>, <<"u","n","k","n","o","w","n">>}
                  \/ item = "cost estimate" /\ FloatIsZero(ArgLoss))

\* the items separated by ", "
CommaSeparated(items) ==
    [i \in 1..(2 * Len(items) - 1) |->
        IF i % 2 = 1 THEN items[(i + 1) \div 2] ELSE ", "]

\* C10: the output holds exactly one "Collect Missing Information" (High,
\* Documentation) if the incident date or the location is "not specified" or
\* "unknown" (any letter case) or the parsed loss is 0, and none otherwise;
\* its reasoning names exactly the missing items, in the order incident date,
\* location, cost estimate.
C10_CollectMissingInformation ==
    rec_pc = "returned" =>
        LET hits == RecsWithAction(recommendations, "Collect Missing Information")
        IN  IF MissingItems = << >>
            THEN hits = {}
            ELSE /\ Cardinality(hits) = 1
                 /\ \A i \in hits :
                        /\ recommendations[i].priority = "High"
                        /\ recommendations[i].category = "Documentation"
                        /\ recommendations[i].reasoning =
                               <<"Critical fields missing: ">>
                                   \o CommaSeparated(MissingItems)
                                   \o <<". Required for processing.">>

C10_Witness_DateAndCostMissing ==
    /\ rec_pc = "returned"
    /\ MissingItems = <<"incident date", "cost estimate">>
    /\ \E i \in 1..Len(recommendations) :
           /\ recommendations[i].action = "Collect Missing Information"
           /\ recommendations[i].reasoning =
                  <<"Critical fields missing: ", "incident date", ", ",
                    "cost estimate", ". Required for processing.">>

\* C11: when the confidence is "low" in any letter case the output begins
\* with "Request Additional Documentation" (High, Verification) followed by
\* "Contact Customer for Details" (High, Communication), whatever the other
\* fields are; with any other confidence neither action is in the output.
C11_LowConfidenceFirst ==
    rec_pc = "returned" =>
        IF ArgConfidence = <<"l","o","w">>
        THEN /\ Len(recommendations) >= 2
             /\ recommendations[1].action = "Request Additional Documentation"
             /\ recommendations[1].priority = "High"
             /\ recommendations[1].category = "Verification"
             /\ recommendations[2].action = "Contact Customer for Details"
             /\ recommendations[2].priority = "High"
             /\ recommendations[2].category = "Communication"
        ELSE {"Request Additional Documentation", "Contact Customer for Details"}
                 \cap ActionsOf(recommendations) = {}

C11_Witness_LowConfidenceCritical ==
    /\ rec_pc = "returned"
    /\ dict_get(extracted_data, "confidence", Absent) = <<"L","o","w">>
    /\ ArgSeverity = <<"c","r","i","t","i","c","a","l">>
    /\ FloatGreater(ArgLoss, 50000)
    /\ Len(recommendations) > 2
    /\ recommendations[1].action = "Request Additional Documentation"
    /\ recommendations[2].action = "Contact Customer for Details"

\* the rule 6 actions and the keywords each one is tied to
LossTypeActions ==
    << [action |-> "Verify Police Report", keywords |-> {<<"t","h","e","f","t">>}],
       [action |-> "Request Fire Department Report", keywords |-> {<<"f","i","r","e">>}],
       [action |-> "Verify Weather Records", keywords |-> {<<"f","l","o","o","d">>, <<"w","a","t","e","r">>}],
       [action |-> "Request Accident Report", keywords |-> {<<"a","c","c","i","d","e","n","t">>, <<"c","o","l","l","i","s","i","o","n">>}] >>

\* C12: the loss-type checks are independent substring tests on the
\* lower-cased loss_type: each of "Verify Police Report" (theft), "Request
\* Fire Department Report" (fire), "Verify Weather Records" (flood or water)
\* and "Request Accident Report" (accident or collision) is in the output
\* once if one of its keywords occurs in loss_type and not at all otherwise,
\* whatever the other checks give.
C12_LossTypeChecksIndependent ==
    rec_pc = "returned" =>
        LET loss_type == ArgLossType
        IN  \A n \in 1..Len(LossTypeActions) :
                Cardinality(RecsWithAction(recommendations, LossTypeActions[n].action))
                    = IF \E kw \in LossTypeActions[n].keywords :
                             str_contains(loss_type, kw)
                      THEN 1 ELSE 0

C12_Witness_AllFourLossTypeChecks ==
    /\ rec_pc = "returned"
    /\ dict_get(extracted_data, "loss_type", Absent) = <<"T","h","e","f","t"," ","a","f","t","e","r"," ","F","i","r","e"," ","A","C","C","I","D","E","N","T",","," ","f","l","o","o","d","e","d">>
    /\ {LossTypeActions[n].action : n \in 1..4} \subseteq ActionsOf(recommendations)

\* every action generate_recommendations can emit, in rule evaluation order
RuleOrder ==
    << "Request Additional Documentation", "Contact Customer for Details",
       "Fast-track Approval", "Simple Phone Verification",
       "Standard Review Process", "Request Photos/Documentation",
       "Schedule Assessment Within 5 Days",
       "Detailed Investigation Required", "Assign Senior Adjuster",
       "Schedule On-site Inspection",
       "Supervisor Approval Required", "Request Independent Assessment",
       "Verify Police Report", "Request Fire Department Report",
       "Verify Weather Records", "Request Accident Report",
       "Collect Missing Information", "Priority Processing",
       "Standard Claim Processing" >>

\* the positions of RuleOrder that hold the action
RulePositions(action) == {n \in 1..Len(RuleOrder) : RuleOrder[n] = action}

\* C13: the returned list is in rule evaluation order: its actions are a
\* subsequence of RuleOrder (each is in RuleOrder, and an earlier element of
\* the list comes strictly earlier in RuleOrder), so none occurs twice.
C13_RuleEvaluationOrder ==
    rec_pc = "returned" =>
        LET at == [i \in 1..Len(recommendations) |->
                      RulePositions(recommendations[i].action)]
        IN  /\ \A i \in 1..Len(recommendations) : Cardinality(at[i]) = 1
            /\ \A i \in 1..(Len(recommendations) - 1) :
                   \A a \in at[i], b \in at[i + 1] : a < b

\* a Medium recommendation precedes a Critical one: not priority order
C13_Witness_MediumBeforeCritical ==
    /\ rec_pc = "returned"
    /\ \E i, j \in 1..Len(recommendations) :
           /\ i < j
           /\ recommendations[i].priority = "Medium"
           /\ recommendations[j].priority = "Critical"
    /\ Len(recommendations) >= 5

-----------------------------------------------------------------------------
(* The request cycle and the store                                         *)

\* process_claim yielded an error outcome: the structure of one of its two
\* except branches (the model call raised, or the reply did not decode)
ErrorOutcome(data) == data.t = "obj" /\ <<"e","r","r","o","r">> \in DOMAIN data.v

\* C3: a request whose process_claim yields an error outcome does not call
\* save_claim_to_history and leaves the stored claims and recommendations as
\* they were.
C3_FailuresTerminal ==
    [][(run_count' # run_count /\ ErrorOutcome(last_run'.extracted_data)) =>
           /\ ~last_run'.save_called
           /\ last_run'.record_id = 0
           /\ claim_history' = claim_history
           /\ claim_recommendations' = claim_recommendations
           /\ claim_seq' = claim_seq]_vars

C3_Witness_FailedRunStoreKept ==
    /\ run_count = 1
    /\ ErrorOutcome(last_run.extracted_data)
    /\ IsFailure(last_run.extracted_data)
    /\ ~last_run.save_called
    /\ claim_recommendations # {}

\* C4: a request that creates a claim record also persists the record's
\* generated recommendations: when the request is done,
\* has_recommendations(id) holds for the id it created.
C4_CycleSavesRecommendations ==
    [][(run_count' # run_count /\ last_run'.record_id # 0) =>
           has_recommendations_in(claim_recommendations', last_run'.record_id)]_vars

\* C5: no stored recommendation belongs to a claim record that was given an
\* id and is no longer stored.
C5_DeleteCascades ==
    \A r \in claim_recommendations :
        r.claim_id <= claim_seq => r.claim_id \in {c.id : c \in claim_history}

-----------------------------------------------------------------------------
(* parse_gemini_response                                                   *)

\* the text is a JSON object once whitespace and fences are removed
DecodesToObject(text) ==
    LET r == json_loads(cleaned_text(text))
    IN  r.ok /\ r.value.t = "obj"

Fenced(p) == p.open = Fence /\ p.close = Fence

\* C6: for a raw text that is not a JSON object, parse_gemini_response
\* returns the failure outcome, whose raw text is the original input exactly.
C6_NonObjectTextFails ==
    (parse_pc = "returned" /\ ~DecodesToObject(response_text)) =>
        /\ IsFailure(parse_result)
        /\ parse_result.v[<<"r","a","w","_","r","e","s","p","o","n","s","e">>] = JStr(response_text)

C8_MappingOrFailure ==
    parse_pc = "returned" => parse_result.t = "obj"

-----------------------------------------------------------------------------
(* The helpers of utils.py, each called once on an argument.               *)

LossStrings ==
    EstimatedLossValues \cup
    {<<"N","/","A">>, <<"<U+20B9>","7",",","0","0","0">>, <<"U","N","K","N","O","W","N">>, <<"n","/","a">>, <<"U","n","k","n","o","w","n">>, <<" ","N","/","A"," ">>, <<"n","o"," ","i","d","e","a">>, <<"-","5","0","0">>,
     <<"5",".">>, <<"1",".","2",".","3">>, <<".","7","5">>, <<"0","0","7">>, <<"A","p","p","r","o","x","i","m","a","t","e","l","y"," ","1",",","2","5","0",".","7","5"," ","U","S","D">>,
     <<"A","R","O","U","N","D"," ","3","0","0"," ","o","r"," ","4","0","0">>, <<"a","r","o","u","n","d"," ","<U+20AC>","3","0","0">>, <<"7","<U+20AC>","5","0">>, <<"1","<U+20B9>","2">>, <<"1","$","2">>,
     <<"<U+201A>","<U+00C7>","<U+03C0>","7",",","0","0","0">>, <<"1","2","o","v","e","r","d","u","e","3">>, <<"$">>}

ParseEstimatedLossCalls ==
    {[fn |-> "parse_estimated_loss", args |-> [loss_str |-> s]] : s \in LossStrings}

\* the value of a required field in a mapping: a key that is not there is
\* written JStr(Absent)
FieldStates == {JStr(Absent), JStr(<<"U","n","k","n","o","w","n">>), JStr(<<"F","i","r","e">>)}

FieldValueVariety ==
    {JStr(Absent), JStr(<<"U","n","k","n","o","w","n">>), JStr(<<"u","n","k","n","o","w","n">>), JStr(<<"N","o","t"," ","s","p","e","c","i","f","i","e","d">>),
     JStr(<<"N","/","A">>), JStr(<< >>), JStr(<<" ">>), JStr(<<"F","i","r","e">>), JNull, JNum(<<"0">>),
     JNum(<<"7">>), JBool(<<"f","a","l","s","e">>), JArr(<< >>)}

\* the mapping that holds the required fields chosen to be present
DataOf(choice) ==
    JObj([k \in {RequiredFields[i] : i \in {j \in 1..8 : choice[j] # JStr(Absent)}} |->
            choice[CHOOSE i \in 1..8 : RequiredFields[i] = k]])

\* a mapping with a key that is not a required field
DataWithExtraKey ==
    JObj([k \in {<<"s","e","v","e","r","i","t","y">>, <<"n","o","t","e","s">>} |-> JStr(<<"L","o","w">>)])

UtilMappings ==
    {DataOf(c) : c \in [1..8 -> FieldStates]}
    \cup {DataOf([i \in 1..8 |-> IF i = 1 THEN a ELSE IF i = 2 THEN b
                                 ELSE IF i <= 5 THEN c ELSE d]) :
            a \in FieldValueVariety, b \in FieldValueVariety,
            c \in {JStr(Absent), JStr(<<"P","u","n","e">>)},
            d \in {JStr(Absent), JStr(<<"P","u","n","e">>), JStr(<<"N","/","A">>)}}
    \cup {DataWithExtraKey}

ValidateExtractedDataCalls ==
    {[fn |-> "validate_extracted_data", args |-> [data |-> d]] : d \in UtilMappings}

CalculateCompletenessScoreCalls ==
    {[fn |-> "calculate_completeness_score", args |-> [data |-> d]] : d \in UtilMappings}

MaxExplanationLen == 5

ExplanationChars == {"a", " ", "'", "\""}

Explanations ==
    UNION {[1..n -> ExplanationChars] : n \in 0..MaxExplanationLen}
    \cup {<<"C","l","a","s","s","i","f","i","e","d"," ","a","s"," ","'","F","i","r","e","'"," ","d","u","e"," ","t","o"," ","'","s","m","o","k","e"," ","d","a","m","a","g","e","'">>,
          <<"T","h","e"," ","c","u","s","t","o","m","e","r","'","s"," ","\"","k","i","t","c","h","e","n"," ","f","i","r","e","\""," ","r","e","p","o","r","t">>,
          <<"\"","F","i","r","e","\""," ","a","n","d"," ","\"","F","i","r","e","\""," ","a","g","a","i","n">>,
          <<"N","o"," ","s","p","e","c","i","f","i","c"," ","k","e","y","w","o","r","d","s">>}

ExtractKeywordsCalls ==
    {[fn |-> "extract_keywords_from_explanation", args |-> [explanation |-> x]] :
        x \in Explanations}

MaxTextLen == 3

TextChars == {"z", "q"}

HighlightTexts ==
    UNION {[1..n -> TextChars] : n \in 0..MaxTextLen}
    \cup {<<"c","u","s","t","o","m","e","r"," ","r","e","p","o","r","t","e","d"," ","F","I","R","E"," ","d","a","m","a","g","e">>, <<"k","i","t","c","h","e","n"," ","f","i","r","e"," ","d","a","m","a","g","e">>,
          <<"Z","z","q"," ","Z","Q">>, <<"t","h","e"," ","c","a","r"," ","c","o","l","o","r"," ","f","a","d","e","d">>}

KeywordLists ==
    {<< >>, <<<<"z">>>>, <<<<"z","q">>>>, <<<<"Q">>, <<"z">>>>, <<<<"z">>, <<"z","q">>>>,
     <<<<"z","q">>, <<"q","z">>>>, <<<<"q","z">>, <<"z","q">>>>, <<<<"z","z">>, <<"z">>, <<"z","z","z">>>>,
     <<<<"z">>, <<"z">>>>, <<<<"f","i","r","e">>>>, <<<<"f","i","r","e">>, <<"f","i","r","e"," ","d","a","m","a","g","e">>>>,
     <<<<"f","i","r","e"," ","d","a","m","a","g","e">>, <<"k","i","t","c","h","e","n"," ","f","i","r","e">>>>, <<<<"c","a","r"," ","c","o","l","o","r">>, <<"c","o","l","o","r">>>>,
     <<<<"d","a","m","a","g","e">>, <<"a">>>>}

HighlightKeywordsCalls ==
    {[fn |-> "highlight_keywords_in_text", args |-> [text |-> t, keywords |-> k]] :
        t \in HighlightTexts, k \in KeywordLists}

UtilCalls ==
    ParseEstimatedLossCalls
    \cup ValidateExtractedDataCalls
    \cup CalculateCompletenessScoreCalls
    \cup ExtractKeywordsCalls
    \cup HighlightKeywordsCalls

InitUtils ==
    /\ util_pc = "call"
    /\ \E call \in UtilCalls : util_fn = call.fn /\ util_args = call.args
    /\ util_result = NoResult
    /\ RecIdle
    /\ ParseIdle
    /\ StoreIdle

\* util_result = parse_estimated_loss(loss_str)
ParseEstimatedLoss ==
    /\ util_pc = "call"
    /\ util_fn = "parse_estimated_loss"
    /\ util_result' = parse_estimated_loss(util_args.loss_str)
    /\ util_pc' = "returned"
    /\ UNCHANGED <<util_fn, util_args, recVars, parseVars, storeVars, appVars,
                   configVars>>

\* util_result = validate_extracted_data(data)
ValidateExtractedData ==
    /\ util_pc = "call"
    /\ util_fn = "validate_extracted_data"
    /\ util_result' = validate_extracted_data(util_args.data)
    /\ util_pc' = "returned"
    /\ UNCHANGED <<util_fn, util_args, recVars, parseVars, storeVars, appVars,
                   configVars>>

\* util_result = calculate_completeness_score(data)
CalculateCompletenessScore ==
    /\ util_pc = "call"
    /\ util_fn = "calculate_completeness_score"
    /\ util_result' = calculate_completeness_score(util_args.data)
    /\ util_pc' = "returned"
    /\ UNCHANGED <<util_fn, util_args, recVars, parseVars, storeVars, appVars,
                   configVars>>

\* util_result = extract_keywords_from_explanation(explanation)
ExtractKeywords ==
    /\ util_pc = "call"
    /\ util_fn = "extract_keywords_from_explanation"
    /\ util_result' = extract_keywords_from_explanation(util_args.explanation)
    /\ util_pc' = "returned"
    /\ UNCHANGED <<util_fn, util_args, recVars, parseVars, storeVars, appVars,
                   configVars>>

\* util_result = highlight_keywords_in_text(text, keywords)
HighlightKeywords ==
    /\ util_pc = "call"
    /\ util_fn = "highlight_keywords_in_text"
    /\ util_result' = highlight_keywords_in_text(util_args.text, util_args.keywords)
    /\ util_pc' = "returned"
    /\ UNCHANGED <<util_fn, util_args, recVars, parseVars, storeVars, appVars,
                   configVars>>

NextUtils ==
    \/ ParseEstimatedLoss
    \/ ValidateExtractedData
    \/ CalculateCompletenessScore
    \/ ExtractKeywords
    \/ HighlightKeywords

SpecUtils == InitUtils /\ [][NextUtils]_vars

-----------------------------------------------------------------------------
(* The helpers of utils.py: claims.                                        *)

Returned(fn) == util_pc = "returned" /\ util_fn = fn

CurrencySymbols == {"$", "<U+20B9>", "<U+20AC>"}

\* the text left when the currency symbols, the three words and the commas are
\* removed from the lower-cased text
WithoutSymbolsWordsCommas(s) ==
    str_replace_empty(
      str_replace_empty(
        str_replace_empty(
          str_replace_empty(
            SelectSeq(str_lower(s), LAMBDA c : c \notin CurrencySymbols),
            <<"o","v","e","r">>),
          <<"a","r","o","u","n","d">>),
        <<"a","p","p","r","o","x","i","m","a","t","e","l","y">>),
      <<",">>)

\* C14: parse_estimated_loss returns 0 on the empty string and on "not
\* specified", "unknown", "n/a" in any letter case; otherwise it returns the
\* value of the first decimal-number token of the text left when the currency
\* symbols, the words over, around, approximately and the commas are removed,
\* or 0 when no digit remains; the result is never negative.
C14_FirstTokenAfterRemoval ==
    Returned("parse_estimated_loss") =>
        LET s == util_args.loss_str
            rest == WithoutSymbolsWordsCommas(s)
        IN  /\ util_result.num >= 0 /\ util_result.den > 0
            /\ IF s = << >> \/ str_lower(s) \in LossSentinels THEN util_result = Zero
               ELSE IF ~HasDigit(rest) THEN util_result = Zero
               ELSE util_result = to_float(first_number(rest))

\* the same with the dollar sign as the only currency symbol: what the code does
C14_DollarOnly ==
    Returned("parse_estimated_loss") =>
        LET s == util_args.loss_str
            rest == str_replace_empty(
                      str_replace_empty(
                        str_replace_empty(
                          str_replace_empty(
                            str_replace_empty(str_lower(s), <<"$">>),
                            <<"o","v","e","r">>),
                          <<"a","r","o","u","n","d">>),
                        <<"a","p","p","r","o","x","i","m","a","t","e","l","y">>),
                      <<",">>)
        IN  /\ util_result.num >= 0 /\ util_result.den > 0
            /\ IF s = << >> \/ str_lower(s) \in LossSentinels THEN util_result = Zero
               ELSE IF ~HasDigit(rest) THEN util_result = Zero
               ELSE util_result = to_float(first_number(rest))

\* "Over $200,000" gives 200000
C14_Example_Over200000 ==
    /\ Returned("parse_estimated_loss")
    /\ util_args.loss_str = <<"O","v","e","r"," ","$","2","0","0",",","0","0","0">>
    /\ util_result = [num |-> 200000, den |-> 1]

\* the fixed order in which missing fields are reported
C15_FixedOrder ==
    <<<<"l","o","s","s","_","t","y","p","e">>, <<"s","e","v","e","r","i","t","y">>, <<"a","f","f","e","c","t","e","d","_","a","s","s","e","t","s">>, <<"e","s","t","i","m","a","t","e","d","_","l","o","s","s">>,
      <<"i","n","c","i","d","e","n","t","_","d","a","t","e">>, <<"l","o","c","a","t","i","o","n">>, <<"c","o","n","f","i","d","e","n","c","e">>, <<"e","x","t","r","a","c","t","i","o","n","_","e","x","p","l","a","n","a","t","i","o","n">>>>

\* C15: validate_extracted_data counts a field as present by key existence
\* alone: is_complete is true iff missing is empty, missing is exactly the
\* required fields that are not keys of the mapping, in the fixed order, and
\* the empty mapping gives (false, all 8 fields in that order).
C15_MissingByKeyExistence ==
    Returned("validate_extracted_data") =>
        LET keys == DOMAIN util_args.data.v
            missing == util_result.missing_fields
            at == [i \in 1..Len(missing) |->
                      {p \in 1..8 : C15_FixedOrder[p] = missing[i]}]
        IN  /\ util_result.is_valid = (missing = << >>)
            /\ \A i \in 1..Len(missing) : Cardinality(at[i]) = 1 /\ missing[i] \notin keys
            /\ \A p \in 1..8 :
                   C15_FixedOrder[p] \notin keys => \E i \in 1..Len(missing) : p \in at[i]
            /\ \A i \in 1..(Len(missing) - 1) :
                   \A p \in at[i], q \in at[i + 1] : p < q
            /\ keys = {} => util_result = [is_valid |-> FALSE, missing_fields |-> C15_FixedOrder]

\* a mapping whose loss_type is the sentinel "Unknown" and whose location is
\* not there: location is reported, loss_type is not
C15_Witness_SentinelCountsAsPresent ==
    /\ Returned("validate_extracted_data")
    /\ <<"l","o","s","s","_","t","y","p","e">> \in DOMAIN util_args.data.v
    /\ util_args.data.v[<<"l","o","s","s","_","t","y","p","e">>] = JStr(<<"U","n","k","n","o","w","n">>)
    /\ ~util_result.is_valid
    /\ \E i \in 1..Len(util_result.missing_fields) : util_result.missing_fields[i] = <<"l","o","c","a","t","i","o","n">>
    /\ \A i \in 1..Len(util_result.missing_fields) : util_result.missing_fields[i] # <<"l","o","s","s","_","t","y","p","e">>

\* the four literals that do not count as a value
C16_Literals == {<<"U","n","k","n","o","w","n">>, <<"N","o","t"," ","s","p","e","c","i","f","i","e","d">>, <<"N","/","A">>, << >>}

\* the percentages 0, 12.5, 25, ..., 100
C16_Percentages ==
    {[num |-> 0, den |-> 1], [num |-> 125, den |-> 10], [num |-> 25, den |-> 1],
     [num |-> 375, den |-> 10], [num |-> 50, den |-> 1], [num |-> 625, den |-> 10],
     [num |-> 75, den |-> 1], [num |-> 875, den |-> 10], [num |-> 100, den |-> 1]}

C16_AllStrings(data) == \A k \in DOMAIN data.v : data.v[k].t = "str"

\* C16: calculate_completeness_score returns (filled, 8, filled/8*100), where
\* a required field is filled iff the mapping holds it with a non-empty value
\* that is not exactly "Unknown", "Not specified", "N/A" or "" (letter case
\* counts); the percentage is one of 0, 12.5, ..., 100, and 4 filled fields
\* of 8 score 50.0.
C16_CompletenessScore ==
    Returned("calculate_completeness_score") =>
        LET data == util_args.data
            filled == {p \in 1..8 :
                          /\ C15_FixedOrder[p] \in DOMAIN data.v
                          /\ data.v[C15_FixedOrder[p]].v # << >>
                          /\ data.v[C15_FixedOrder[p]].v \notin C16_Literals}
        IN  /\ util_result.total_count = 8
            /\ util_result.percentage \in C16_Percentages
            /\ util_result.percentage.num * 8
                   = util_result.filled_count * 100 * util_result.percentage.den
            /\ util_result.filled_count = 4 => util_result.percentage = [num |-> 50, den |-> 1]
            /\ C16_AllStrings(data) => util_result.filled_count = Cardinality(filled)

\* four fields hold values, of which one is "unknown" in lower case; of the
\* other four one holds the sentinel "Unknown" and one is not there: 50.0
C16_Witness_FourOfEight ==
    /\ Returned("calculate_completeness_score")
    /\ C16_AllStrings(util_args.data)
    /\ util_result = [filled_count |-> 4, total_count |-> 8, percentage |-> [num |-> 50, den |-> 1]]
    /\ <<"l","o","s","s","_","t","y","p","e">> \in DOMAIN util_args.data.v
    /\ util_args.data.v[<<"l","o","s","s","_","t","y","p","e">>] = JStr(<<"u","n","k","n","o","w","n">>)
    /\ <<"s","e","v","e","r","i","t","y">> \in DOMAIN util_args.data.v
    /\ util_args.data.v[<<"s","e","v","e","r","i","t","y">>] = JStr(<<"U","n","k","n","o","w","n">>)
    /\ <<"l","o","c","a","t","i","o","n">> \notin DOMAIN util_args.data.v

\* keywords are found in s, from position from on and in this order, each
\* between two quote characters; same tells whether the two must be the same
RECURSIVE C17_EnclosedInOrder(_, _, _, _)
C17_EnclosedInOrder(s, keywords, from, same) ==
    IF keywords = << >> THEN TRUE
    ELSE \E p \in from..(Len(s) - Len(keywords[1]) - 1) :
             /\ s[p] \in QuoteChars
             /\ SubSeq(s, p + 1, p + Len(keywords[1])) = keywords[1]
             /\ s[p + Len(keywords[1]) + 1] \in QuoteChars
             /\ same => s[p + Len(keywords[1]) + 1] = s[p]
             /\ C17_EnclosedInOrder(s, Tail(keywords), p + Len(keywords[1]) + 2, same)

\* C17: every keyword extract_keywords_from_explanation returns is a substring
\* of the explanation enclosed in matching quote characters (the same quote
\* character opens and closes it) and holds no quote character; the keywords
\* are in left-to-right order of appearance, duplicates retained, and
\* "Classified as 'Fire' due to 'smoke damage'" gives ["Fire", "smoke damage"].
C17_MatchingQuotes ==
    Returned("extract_keywords_from_explanation") =>
        /\ \A i \in 1..Len(util_result) :
               /\ util_result[i] # << >>
               /\ \A k \in 1..Len(util_result[i]) : util_result[i][k] \notin QuoteChars
        /\ C17_EnclosedInOrder(util_args.explanation, util_result, 1, TRUE)
        /\ util_args.explanation = <<"C","l","a","s","s","i","f","i","e","d"," ","a","s"," ","'","F","i","r","e","'"," ","d","u","e"," ","t","o"," ","'","s","m","o","k","e"," ","d","a","m","a","g","e","'">>
               => util_result = <<<<"F","i","r","e">>, <<"s","m","o","k","e"," ","d","a","m","a","g","e">>>>

\* the same without the requirement that the two quote characters are the same
C17_AnyQuotes ==
    Returned("extract_keywords_from_explanation") =>
        /\ \A i \in 1..Len(util_result) :
               /\ util_result[i] # << >>
               /\ \A k \in 1..Len(util_result[i]) : util_result[i][k] \notin QuoteChars
        /\ C17_EnclosedInOrder(util_args.explanation, util_result, 1, FALSE)
        /\ util_args.explanation = <<"C","l","a","s","s","i","f","i","e","d"," ","a","s"," ","'","F","i","r","e","'"," ","d","u","e"," ","t","o"," ","'","s","m","o","k","e"," ","d","a","m","a","g","e","'">>
               => util_result = <<<<"F","i","r","e">>, <<"s","m","o","k","e"," ","d","a","m","a","g","e">>>>

\* the positions of s that lie in an intact opening or closing marker text
C18_MarkerPositions(s) ==
    UNION {o..(o + Len(HighlightOpen) - 1) : o \in match_starts(s, HighlightOpen)}
    \cup UNION {c..(c + Len(HighlightClose) - 1) : c \in match_starts(s, HighlightClose)}

\* s without its marker texts
C18_Plain(s) ==
    The({ The({ [k \in 1..Len(kept) |-> s[kept[k]]] :
                  kept \in {SelectSeq([i \in 1..Len(s) |-> i],
                                      LAMBDA i : i \notin marked)} }) :
            marked \in {C18_MarkerPositions(s)} })

\* the matched text m is wrapped in s: behind some opening marker text the
\* text goes on with m, and before some closing marker text it ends with m
C18_Wrapped(s, m) ==
    /\ \E o \in match_starts(s, HighlightOpen) :
           str_startswith(C18_Plain(SubSeq(s, o + Len(HighlightOpen), Len(s))), m)
    /\ \E c \in match_starts(s, HighlightClose) :
           \E before \in {C18_Plain(SubSeq(s, 1, c - 1))} :
               /\ Len(before) >= Len(m)
               /\ SubSeq(before, Len(before) - Len(m) + 1, Len(before)) = m

\* C18: highlight_keywords_in_text wraps every occurrence of each keyword in
\* the text with the marker, whatever the letter case of the occurrence and
\* with the occurrence's own casing kept; with an empty keyword list the text
\* is returned as it is.
C18_EveryOccurrenceWrapped ==
    Returned("highlight_keywords_in_text") =>
        /\ util_args.keywords = << >> => util_result = util_args.text
        /\ \A i \in 1..Len(util_args.keywords) :
               \A p \in match_starts(str_lower(util_args.text),
                                     str_lower(util_args.keywords[i])) :
                   C18_Wrapped(util_result,
                               SubSeq(util_args.text, p,
                                      p + Len(util_args.keywords[i]) - 1))

\* the same for a list of one keyword
C18_OneKeywordWrapped ==
    Returned("highlight_keywords_in_text") /\ Len(util_args.keywords) <= 1 =>
        /\ util_args.keywords = << >> => util_result = util_args.text
        /\ C18_Plain(util_result) = util_args.text
        /\ \A i \in 1..Len(util_args.keywords) :
               \A p \in match_starts(str_lower(util_args.text),
                                     str_lower(util_args.keywords[i])) :
                   C18_Wrapped(util_result,
                               SubSeq(util_args.text, p,
                                      p + Len(util_args.keywords[i]) - 1))

\* keyword "fire" wraps "FIRE" in "customer reported FIRE damage"
C18_Example_FIRE ==
    /\ Returned("highlight_keywords_in_text")
    /\ util_args.text = <<"c","u","s","t","o","m","e","r"," ","r","e","p","o","r","t","e","d"," ","F","I","R","E"," ","d","a","m","a","g","e">>
    /\ util_args.keywords = <<<<"f","i","r","e">>>>
    /\ util_result = <<"c","u","s","t","o","m","e","r"," ","r","e","p","o","r","t","e","d"," ">> \o HighlightOpen \o <<"F","I","R","E">>
                         \o HighlightClose \o <<" ","d","a","m","a","g","e">>

\* the marker texts of s follow each other as opening, closing, opening,
\* closing: no marker lies in the span another marker wraps
C19_MarkersAlternate(s) ==
    \E opens \in {match_starts(s, HighlightOpen)} :
        \E closes \in {match_starts(s, HighlightClose)} :
            /\ \A o \in opens : \E c \in closes :
                   c > o /\ \A x \in opens : ~(o < x /\ x < c)
            /\ \A c \in closes : \E o \in opens :
                   o < c /\ \A x \in closes : ~(o < x /\ x < c)

\* C19: highlight_keywords_in_text applies the keywords longest first, equal
\* lengths in their original order, and no marker is ever inserted inside a
\* marker inserted before: not in its tag text, so that the text outside the
\* marker texts is still the original text, and not in the span it wraps.
C19_NoMarkerInsideMarker ==
    Returned("highlight_keywords_in_text") =>
        /\ C18_Plain(util_result) = util_args.text
        /\ C19_MarkersAlternate(util_result)

\* the order in which the keywords are applied: longest first, equal lengths
\* in their original order
C19_LongestFirstStable ==
    Returned("highlight_keywords_in_text") =>
        \E applied \in {sorted_keywords(util_args.keywords)} :
            /\ Len(applied) = Len(util_args.keywords)
            /\ \A r \in 1..(Len(applied) - 1) : Len(applied[r]) >= Len(applied[r + 1])
            /\ \E at \in [1..Len(applied) -> 1..Len(applied)] :
                   /\ \A r, t \in 1..Len(applied) : r # t => at[r] # at[t]
                   /\ \A r \in 1..Len(applied) : applied[r] = util_args.keywords[at[r]]
                   /\ \A r, t \in 1..Len(applied) :
                          r < t /\ Len(applied[r]) = Len(applied[t]) => at[r] < at[t]

-----------------------------------------------------------------------------
(* The request cycle: validation warnings.                                 *)

\* the reply decoded to a mapping that is not an error outcome and lacks a
\* required field
C20_PartialMapping(data) ==
    /\ data.t = "obj"
    /\ ~ErrorOutcome(data)
    /\ \E p \in 1..8 : C15_FixedOrder[p] \notin DOMAIN data.v

\* shown holds a warning that names every required field data lacks
C20_WarningNamesMissing(shown, data) ==
    \E i \in 1..Len(shown) :
        /\ shown[i].kind = "warning"
        /\ \A p \in 1..8 :
               C15_FixedOrder[p] \notin DOMAIN data.v
                   => str_contains(shown[i].detail, C15_FixedOrder[p])

C20_Shows(shown, kind) == \E i \in 1..Len(shown) : shown[i].kind = kind

-----------------------------------------------------------------------------
(* The request cycle: persistence failures.                                *)

\* the run showed the result of process_claim under a warning that the save
\* failed
C21_WarnedAndDisplayed(run) ==
    /\ run.extracted_data # NoResult
    /\ \E i \in 1..Len(run.shown) :
           /\ run.shown[i] = Message("warning", <<"Could not save to history">>)
           /\ SubSeq(run.shown, i + 1, Len(run.shown))
                  = display_results(run.extracted_data)

\* C21: a persistence failure is isolated.  Whenever a request with a claim
\* text meets a store that cannot be reached, or save_claim_to_history
\* raises, the caller is warned and the result of process_claim is displayed.
C21_PersistenceFailureIsolated ==
    last_run.store_error # "none" => C21_WarnedAndDisplayed(last_run)

\* the part of C21 the code keeps: once main is running, a save that raises
\* stores nothing, and the warning is followed by the whole display
C21_SaveFailureIsolated ==
    last_run.store_error = "save" =>
        /\ C21_WarnedAndDisplayed(last_run)
        /\ last_run.save_called
        /\ last_run.record_id = 0

\* a run whose save raised after the reply was decoded
C21_Witness_SaveRaised ==
    /\ last_run.store_error = "save"
    /\ last_run.extracted_data.t = "obj"
    /\ C20_Shows(last_run.shown, "tabs")
    /\ claim_history = {}

-----------------------------------------------------------------------------
(* The store: what save_claim_to_history keeps of a mapping.               *)

\* the columns of claim_history that hold the structured fields, and the
\* keys they are filled from
C22_Columns ==
    <<"loss_type", "severity", "affected_assets", "estimated_loss",
      "incident_date", "location", "confidence", "extraction_explanation">>

C22_Keys ==
    <<<<"l","o","s","s","_","t","y","p","e">>, <<"s","e","v","e","r","i","t","y">>, <<"a","f","f","e","c","t","e","d","_","a","s","s","e","t","s">>, <<"e","s","t","i","m","a","t","e","d","_","l","o","s","s">>,
      <<"i","n","c","i","d","e","n","t","_","d","a","t","e">>, <<"l","o","c","a","t","i","o","n">>, <<"c","o","n","f","i","d","e","n","c","e">>, <<"e","x","t","r","a","c","t","i","o","n","_","e","x","p","l","a","n","a","t","i","o","n">>>>

C22_Sentinels == {JStr(<<"U","n","k","n","o","w","n">>), JStr(<<"N","o","t"," ","s","p","e","c","i","f","i","e","d">>)}

\* what each column holds when its key is absent
C22_Defaults ==
    <<JStr(<<"U","n","k","n","o","w","n">>), JStr(<<"U","n","k","n","o","w","n">>), JStr(<<"N","o","t"," ","s","p","e","c","i","f","i","e","d">>), JStr(<<"N","o","t"," ","s","p","e","c","i","f","i","e","d">>),
      JStr(<<"N","o","t"," ","s","p","e","c","i","f","i","e","d">>), JStr(<<"N","o","t"," ","s","p","e","c","i","f","i","e","d">>), JStr(<<"U","n","k","n","o","w","n">>), JStr(<< >>)>>

\* this step is a save_claim_to_history that returned
ClaimSaved == claim_seq' = claim_seq + 1

\* C22 as stated: get_history_by_id of the id a save returned holds the text,
\* every field of the mapping unchanged, and "Unknown" or "Not specified" in
\* each of the eight columns whose key is absent.
C22_AbsentFieldsHoldSentinels ==
    [][ClaimSaved =>
          \E claim_text \in DirectClaimTexts, data \in DirectSaveData :
              \E record \in {get_history_by_id(claim_history', claim_seq')} :
                  /\ record # NoResult
                  /\ record.claim_text = claim_text
                  /\ \A p \in 1..8 :
                         IF C22_Keys[p] \in DOMAIN data.v
                         THEN record[C22_Columns[p]] = data.v[C22_Keys[p]]
                         ELSE record[C22_Columns[p]] \in C22_Sentinels]_vars

\* C22, amended: the record holds the text; a key that is absent leaves
\* "Unknown" in loss_type, severity and confidence, "Not specified" in
\* affected_assets, estimated_loss, incident_date and location, and the empty
\* string in extraction_explanation; a string that is present is stored
\* unchanged, and a number that is present is read back as its text.
C22_AbsentFieldsHoldDefaults ==
    [][ClaimSaved =>
          \E claim_text \in DirectClaimTexts, data \in DirectSaveData :
              \E record \in {get_history_by_id(claim_history', claim_seq')} :
                  /\ record # NoResult
                  /\ record.id = claim_seq'
                  /\ record.claim_text = claim_text
                  /\ \A p \in 1..8 :
                         IF C22_Keys[p] \notin DOMAIN data.v
                         THEN record[C22_Columns[p]] = C22_Defaults[p]
                         ELSE IF data.v[C22_Keys[p]].t = "str"
                         THEN record[C22_Columns[p]] = data.v[C22_Keys[p]]
                         ELSE /\ data.v[C22_Keys[p]].t = "num"
                              /\ record[C22_Columns[p]] = JStr(data.v[C22_Keys[p]].v)]_vars

\* a record saved from a mapping that holds some of the fields: the fields
\* present are kept and the others hold their defaults
C22_Witness_SomeFieldsAbsent ==
    \E record \in claim_history :
        /\ record.claim_text = ClaimText
        /\ record.loss_type = JStr(<<"F","i","r","e">>)
        /\ record.severity = JStr(<<"E","x","t","r","e","m","e">>)
        /\ record.estimated_loss = JStr(<<"5","0","0","0">>)
        /\ record.location = JStr(<<"N","o","t"," ","s","p","e","c","i","f","i","e","d">>)
        /\ record.confidence = JStr(<<"U","n","k","n","o","w","n">>)
        /\ record.extraction_explanation = JStr(<< >>)

-----------------------------------------------------------------------------
(* The store: the scales of severity and confidence.                       *)

C23_Severities ==
    {JStr(<<"L","o","w">>), JStr(<<"M","e","d","i","u","m">>), JStr(<<"H","i","g","h">>), JStr(<<"C","r","i","t","i","c","a","l">>), JStr(<<"U","n","k","n","o","w","n">>)}

C23_Confidences ==
    {JStr(<<"L","o","w">>), JStr(<<"M","e","d","i","u","m">>), JStr(<<"H","i","g","h">>), JStr(<<"U","n","k","n","o","w","n">>)}

\* C23: in every reachable state of the store, every record has a severity
\* among Low, Medium, High, Critical and Unknown and a confidence among Low,
\* Medium, High and Unknown, whatever the model replied.
C23_SeverityConfidenceOnScale ==
    \A record \in claim_history :
        /\ record.severity \in C23_Severities
        /\ record.confidence \in C23_Confidences

\* the request that stored the reply {"severity":"Extreme","confidence":"Certain"}
C23_Witness_OffScaleReplyStored ==
    /\ last_run.record_id # 0
    /\ \E record \in claim_history :
           /\ record.id = last_run.record_id
           /\ record.severity = JStr(<<"E","x","t","r","e","m","e">>)
           /\ record.confidence = JStr(<<"C","e","r","t","a","i","n">>)

-----------------------------------------------------------------------------
(* The store: record identity.                                             *)

\* C24: record identity is stable.  Over any step of save_claim_to_history,
\* delete_history_item, clear_all_history and
\* save_recommendations_to_history, a record that appears has an id no
\* record was ever given before, no two stored records share an id, and a
\* record that stays holds the id, claim_text, timestamp and fields it was
\* created with.
C24_RecordIdentityStable ==
    [][/\ claim_seq' >= claim_seq
       /\ \A c \in claim_history' : c.id \in 1..claim_seq'
       /\ \A c \in claim_history' \ claim_history : c.id > claim_seq
       /\ \A c, d \in claim_history' : c.id = d.id => c = d
       /\ \A c \in claim_history' : c.id <= claim_seq => c \in claim_history]_vars

\* the ids given so far are exactly those up to claim_seq
C24_IdsWithinSequence ==
    /\ \A c \in claim_history : c.id \in 1..claim_seq
    /\ \A c, d \in claim_history : c.id = d.id => c = d

\* a record that was created is gone, by a delete before or after the newest
\* record was saved, and the newest record holds the last id drawn
C24_Witness_IdNotReused ==
    /\ claim_seq >= 2
    /\ \E c \in claim_history : c.id = claim_seq
    /\ \E i \in 1..(claim_seq - 1) : i \notin {c.id : c \in claim_history}
    /\ claim_recommendations # {}

-----------------------------------------------------------------------------
(* The store: saving and reading recommendations.                          *)

\* this step is save_recommendations_to_history(claim_id, recs) committing
\* the rows of a list that is not empty
C25_Saved(claim_id, recs) ==
    /\ recs # << >>
    /\ rec_seq' = rec_seq + Len(recs)
    /\ claim_recommendations' =
           claim_recommendations \cup recommendation_rows(rec_seq, claim_id, recs)

\* the elements of a list of recommendations
C25_Elements(list) == {list[i] : i \in 1..Len(list)}

\* C25: a record's recommendation set is replaced as a whole.  After
\* save_recommendations_to_history(claim_id, L), however many calls came
\* before, get_recommendations_by_claim_id(claim_id) contains exactly the
\* elements of L, and the rows of L are persisted together or not at all.
C25_RegenerationReplaces ==
    [][\A claim_id \in 1..MaxClaims, recs \in StoreRecLists :
           C25_Saved(claim_id, recs) =>
               \E got \in {get_recommendations_by_claim_id(claim_recommendations',
                                                           claim_id)} :
                   /\ Len(got) = Len(recs)
                   /\ C25_Elements(got) = C25_Elements(recs)]_vars

\* the part of C25 the code keeps: the rows a step adds are the rows of one
\* whole list for one claim id, or none
C25_AllOrNone ==
    [][\/ claim_recommendations' \subseteq claim_recommendations
       \/ \E claim_id \in 1..MaxClaims, recs \in StoreRecLists :
              C25_Saved(claim_id, recs)]_vars

\* two saves for one claim id have both left their rows
C25_Witness_SavedTwice ==
    \E claim_id \in 1..MaxClaims :
        /\ claim_id \in {c.id : c \in claim_history}
        /\ Len(get_recommendations_by_claim_id(claim_recommendations, claim_id)) = 2
        /\ \E r \in claim_recommendations : r.claim_id = claim_id /\ r.priority = "Urgent"
        /\ \E r \in claim_recommendations : r.claim_id = claim_id /\ r.priority = "Medium"

-----------------------------------------------------------------------------
(* The store: deleting what is not there.                                  *)

\* the ids delete_history_item is called with: the ids that were given, and
\* one that never was
C26_RecordIds == 1..(MaxClaims + 1)

\* C26: deletion is idempotent.  In every state of the store,
\* delete_history_item returns True iff a record with the id is stored; for
\* an id that is not stored (never given, or deleted) it returns False and
\* leaves the records and the recommendations as they are; and
\* clear_all_history on a store without records returns 0 and leaves both
\* tables as they are.
C26_DeleteIdempotent ==
    /\ \A record_id \in C26_RecordIds :
           \E after \in {rows_after_delete(DATABASE_TYPE, claim_history,
                                           claim_recommendations, record_id)} :
               /\ delete_history_item_returned(claim_history, record_id)
                      = (\E c \in claim_history : c.id = record_id)
               /\ record_id \notin {c.id : c \in claim_history} =>
                      /\ ~delete_history_item_returned(claim_history, record_id)
                      /\ after.history = claim_history
                      /\ after.recs = claim_recommendations
               /\ delete_history_item_returned(claim_history, record_id) =>
                      ~delete_history_item_returned(after.history, record_id)
    /\ claim_history = {} =>
           /\ clear_all_history_returned(claim_history) = 0
           /\ rows_after_clear(DATABASE_TYPE, claim_history, claim_recommendations)
                  = [history |-> claim_history, recs |-> claim_recommendations]

\* a record was deleted, its recommendations are still stored, and another
\* record is stored: a second delete of the id finds nothing
C26_Witness_DeletedIdWithRows ==
    \E record_id \in 1..claim_seq :
        /\ record_id \notin {c.id : c \in claim_history}
        /\ \E r \in claim_recommendations : r.claim_id = record_id
        /\ claim_history # {}

-----------------------------------------------------------------------------
(* The store: the order of the history.                                    *)

C27_Limits == 1..(MaxClaims + 1)

\* the list is ordered by descending timestamp and holds at most limit rows
C27_DescendingWithin(list, limit) ==
    /\ Len(list) <= limit
    /\ \A i, j \in 1..Len(list) : i < j => list[i].timestamp >= list[j].timestamp

\* C27: get_all_history(limit) returns at most limit records by descending
\* creation time, so that right after save_claim_to_history returned id X the
\* first element is the record with id X for every limit >= 1, even when
\* records share a timestamp; search_history without keyword and severity
\* returns the same list.
C27_NewestFirst ==
    [][ClaimSaved =>
          \A limit \in C27_Limits :
              /\ \A list \in get_all_history(claim_history', limit) :
                     /\ C27_DescendingWithin(list, limit)
                     /\ list[1].id = claim_seq'
              /\ search_history(claim_history', << >>, << >>, limit)
                     = get_all_history(claim_history', limit)]_vars

\* the part of C27 the code keeps: the list holds at most limit records by
\* descending timestamp, search_history without filters may return the same
\* lists, and the record just saved comes first when no other record has its
\* timestamp
C27_NewestFirstUnlessTie ==
    [][ClaimSaved =>
          \A limit \in C27_Limits :
              /\ \A list \in get_all_history(claim_history', limit) :
                     /\ C27_DescendingWithin(list, limit)
                     /\ (\A c \in claim_history : c.timestamp # now)
                            => list[1].id = claim_seq'
              /\ search_history(claim_history', << >>, << >>, limit)
                     = get_all_history(claim_history', limit)]_vars

\* two records saved within one tick of the timestamp
C27_Witness_SameTick ==
    \E c, d \in claim_history :
        /\ c.id < d.id
        /\ c.timestamp = d.timestamp
        /\ d.id = claim_seq
        /\ \E list \in get_all_history(claim_history, 1) : list[1] = c

-----------------------------------------------------------------------------
(* The store: the order of the recommendations read back.                  *)

C28_PriorityOrder == <<"Critical", "High", "Medium", "Low">>

\* the place of a priority in the order, any other priority after all four
C28_Place(priority) ==
    IF \E i \in 1..4 : C28_PriorityOrder[i] = priority
    THEN CHOOSE i \in 1..4 : C28_PriorityOrder[i] = priority
    ELSE 5

\* the columns get_recommendations_by_claim_id selects of a row
C28_Selected(r) ==
    [action |-> r.action, priority |-> r.priority, category |-> r.category,
     reasoning |-> r.reasoning]

C28_Witness_OtherPriorityLast ==
    /\ \E claim_id \in 1..MaxClaims :
           \E got \in {get_recommendations_by_claim_id(claim_recommendations, claim_id)} :
               /\ Len(got) = 2
               /\ got[1].priority = "Medium" /\ got[2].priority = "Urgent"
               /\ \E q, r \in claim_recommendations :
                      /\ q.claim_id = claim_id /\ r.claim_id = claim_id
                      /\ q.priority = "Urgent" /\ r.priority = "Medium" /\ q.id < r.id

-----------------------------------------------------------------------------
(* generate_recommendations: what "Fast-track Approval" comes with.        *)

LowConfidenceRuleActions ==
    {"Request Additional Documentation", "Contact Customer for Details"}

\* the output holds a "Collect Missing Information" whose reasoning lists the
\* cost estimate
C29_CostEstimateListedMissing(recs) ==
    \E i \in RecsWithAction(recs, "Collect Missing Information") :
        \E k \in 1..Len(recs[i].reasoning) : recs[i].reasoning[k] = "cost estimate"

\* C29: "Fast-track Approval" is recommended only when a positive cost
\* estimate below 10000 was parsed: the output never holds it together with a
\* "Collect Missing Information" that lists the cost estimate as missing, nor
\* together with an action of the low-confidence rule or of the
\* loss-above-50000 rule.
C29_FastTrackOnlyWithCost ==
    (rec_pc = "returned" /\ "Fast-track Approval" \in ActionsOf(recommendations)) =>
        /\ ~FloatIsZero(ArgLoss)
        /\ FloatLess(ArgLoss, 10000)
        /\ ~C29_CostEstimateListedMissing(recommendations)
        /\ ActionsOf(recommendations) \cap LowConfidenceRuleActions = {}
        /\ ActionsOf(recommendations) \cap HighValueActions = {}

\* the part of C29 the code keeps: "Fast-track Approval" comes with a parsed
\* loss below 10000, possibly 0, and with no action of the low-confidence rule
\* or of the loss-above-50000 rule
C29_FastTrackExcludesOtherRules ==
    (rec_pc = "returned" /\ "Fast-track Approval" \in ActionsOf(recommendations)) =>
        /\ FloatLess(ArgLoss, 10000)
        /\ FloatIsZero(ArgLoss) = C29_CostEstimateListedMissing(recommendations)
        /\ ActionsOf(recommendations) \cap LowConfidenceRuleActions = {}
        /\ ActionsOf(recommendations) \cap HighValueActions = {}

\* a claim of low severity and high confidence whose loss reads "Not
\* specified" is fast-tracked while its cost estimate is asked for
C29_Witness_FastTrackWithoutCost ==
    /\ rec_pc = "returned"
    /\ "Fast-track Approval" \in ActionsOf(recommendations)
    /\ C29_CostEstimateListedMissing(recommendations)
    /\ "estimated_loss" \in DOMAIN extracted_data
    /\ extracted_data["estimated_loss"] = <<"N","o","t"," ","s","p","e","c","i","f","i","e","d">>

-----------------------------------------------------------------------------
(* The configuration: one backend for the connection and the dialect.      *)

\* C30: the backend is selected once and used consistently.  Once
\* get_database_config has returned, it returns the same type and url for
\* the rest of the process; and whatever the environment and the secrets
\* hold, the backend that get_connection, get_cursor and adapt_placeholder
\* use is the one the module-level DATABASE_TYPE names, by which
\* init_database and the functions that save and search choose their SQL.
C30_BackendSelectedOnce ==
    [][/\ config_cache # NoConfig =>
              /\ config_cache' = config_cache
              /\ get_database_config(config_cache', secrets', environ') = config_cache
       /\ config_call'.fn # "" =>
              config_call'.backend = backend_of(DATABASE_TYPE')]_vars

\* the part of C30 the code keeps: the first answer of get_database_config
\* is the answer for the rest of the process, and without DATABASE_TYPE among
\* the secrets the backend is the one DATABASE_TYPE names
C30_SelectedOnce ==
    [][/\ config_cache # NoConfig =>
              /\ config_cache' = config_cache
              /\ get_database_config(config_cache', secrets', environ') = config_cache
       /\ (config_call'.fn # "" /\ "DATABASE_TYPE" \notin DOMAIN secrets') =>
              config_call'.backend = backend_of(DATABASE_TYPE')]_vars

\* the secrets name PostgreSQL and the environment names nothing:
\* init_database asks for a PostgreSQL connection and creates the SQLite schema
C30_Witness_SecretsOverEnvironment ==
    /\ "DATABASE_TYPE" \notin DOMAIN environ
    /\ "DATABASE_TYPE" \in DOMAIN secrets
    /\ config_call.fn = "init_database"
    /\ config_call.backend = "postgresql"
    /\ config_call.dialect = "sqlite"
    /\ DATABASE_TYPE = "sqlite"

====
